---- MODULE Spec2Model ----
(***************************************************************************)
(* Flowly habit tracker: the SQLite store (habits, habit_logs, notes) with *)
(* the data-access operations of src/src/models.py, and the statistics     *)
(* derived from it (streaks, range queries, per-habit tables).             *)
(*                                                                         *)
(* Text values (habit names, note contents, ISO days) are sequences of     *)
(* character codes, so that strip(), lower(), SQLite's BINARY and NOCASE   *)
(* collations and the text comparison of BETWEEN are computed, not assumed.*)
(* A Python date is the triple <<year, month, day>>.                       *)
(***************************************************************************)
EXTENDS Integers, Sequences, FiniteSets, Bags, TLC

(* ------------------------------ bounds -------------------------------- *)
\* habits.id is AUTOINCREMENT: at most this many habits are ever created.
MaxHabitId == 2
\* Rows the habit_logs table holds at once.
MaxLogs == 3
\* notes.id is AUTOINCREMENT: at most this many notes are ever created.
MaxNoteId == 1

(* ------------------------------- text --------------------------------- *)
SPACE == 32
DASH == 45
ZERO == 48

\* str.strip(): leading and trailing whitespace removed.
RECURSIVE lstrip(_)
lstrip(s) == IF s # <<>> /\ Head(s) = SPACE THEN lstrip(Tail(s)) ELSE s

RECURSIVE rstrip(_)
rstrip(s) ==
    IF s # <<>> /\ s[Len(s)] = SPACE THEN rstrip(SubSeq(s, 1, Len(s) - 1)) ELSE s

strip(s) == rstrip(lstrip(s))

\* str.lower() on ASCII; SQLite's NOCASE folds the same 26 letters.
lower(s) == [i \in 1..Len(s) |-> IF s[i] >= 65 /\ s[i] <= 90 THEN s[i] + 32 ELSE s[i]]

\* Text comparison as memcmp does it (SQLite BINARY collation, Python str <).
\* The first position where the two differ decides; without one the shorter
\* text is the smaller.
TextLess(a, b) ==
    LET n == IF Len(a) < Len(b) THEN Len(a) ELSE Len(b)
        differ == {i \in 1..n : a[i] # b[i]}
    IN IF differ = {} THEN Len(a) < Len(b)
       ELSE LET first == CHOOSE i \in differ : \A j \in differ : i <= j
            IN a[first] < b[first]

TextLeq(a, b) == a = b \/ TextLess(a, b)

\* x BETWEEN lo AND hi on TEXT values.
Between(x, lo, hi) == TextLeq(lo, x) /\ TextLeq(x, hi)

(* ------------------------------- dates -------------------------------- *)
IsLeap(y) == (y % 4 = 0) /\ ((y % 100 # 0) \/ (y % 400 = 0))

DaysInMonth(y, m) ==
    IF m = 2 THEN (IF IsLeap(y) THEN 29 ELSE 28)
    ELSE IF m \in {4, 6, 9, 11} THEN 30 ELSE 31

\* d + timedelta(days=1)
NextDate(d) ==
    IF d[3] < DaysInMonth(d[1], d[2]) THEN <<d[1], d[2], d[3] + 1>>
    ELSE IF d[2] < 12 THEN <<d[1], d[2] + 1, 1>>
    ELSE <<d[1] + 1, 1, 1>>

\* d - timedelta(days=1)
PrevDate(d) ==
    IF d[3] > 1 THEN <<d[1], d[2], d[3] - 1>>
    ELSE IF d[2] > 1 THEN <<d[1], d[2] - 1, DaysInMonth(d[1], d[2] - 1)>>
    ELSE <<d[1] - 1, 12, 31>>

\* d + timedelta(days=n), n of either sign: within the month of d if the day
\* stays there, else on from the first day of the next month or the last day of
\* the month before.
RECURSIVE AddDays(_, _)
AddDays(d, n) ==
    IF n >= 0
    THEN IF d[3] + n <= DaysInMonth(d[1], d[2]) THEN <<d[1], d[2], d[3] + n>>
         ELSE AddDays(NextDate(<<d[1], d[2], DaysInMonth(d[1], d[2])>>),
                      n - (DaysInMonth(d[1], d[2]) - d[3]) - 1)
    ELSE IF d[3] + n >= 1 THEN <<d[1], d[2], d[3] + n>>
         ELSE AddDays(PrevDate(<<d[1], d[2], 1>>), n + d[3])

\* date.isoformat(): 'YYYY-MM-DD', zero padded
isoformat(d) ==
    << ZERO + (d[1] \div 1000), ZERO + ((d[1] \div 100) % 10),
       ZERO + ((d[1] \div 10) % 10), ZERO + (d[1] % 10), DASH,
       ZERO + (d[2] \div 10), ZERO + (d[2] % 10), DASH,
       ZERO + (d[3] \div 10), ZERO + (d[3] % 10) >>

\* date.fromisoformat()
fromisoformat(s) ==
    << (s[1] - ZERO) * 1000 + (s[2] - ZERO) * 100 + (s[3] - ZERO) * 10 + (s[4] - ZERO),
       (s[6] - ZERO) * 10 + (s[7] - ZERO),
       (s[9] - ZERO) * 10 + (s[10] - ZERO) >>

\* Chronological order of two dates (datetime.date.__lt__).
DateLess(a, b) ==
    \/ a[1] < b[1]
    \/ a[1] = b[1] /\ a[2] < b[2]
    \/ a[1] = b[1] /\ a[2] = b[2] /\ a[3] < b[3]

DateLeq(a, b) == a = b \/ DateLess(a, b)

\* Days of the months of year y before month m.
RECURSIVE DaysBeforeMonth(_, _)
DaysBeforeMonth(y, m) ==
    IF m = 1 THEN 0 ELSE DaysBeforeMonth(y, m - 1) + DaysInMonth(y, m - 1)

\* date.toordinal(): 0001-01-01 is day 1.
toordinal(d) ==
    LET y == d[1] - 1 IN
    y * 365 + (y \div 4) - (y \div 100) + (y \div 400) + DaysBeforeMonth(d[1], d[2]) + d[3]

\* date.weekday(): Monday is 0, Sunday is 6.
weekday(d) == (toordinal(d) + 6) % 7

\* (a - b).days
DaysBetween(a, b) == toordinal(a) - toordinal(b)

\* str.split()[0]: the first run of characters that are not whitespace.
RECURSIVE UpToSpace(_)
UpToSpace(s) ==
    IF s = <<>> \/ Head(s) = SPACE THEN <<>> ELSE <<Head(s)>> \o UpToSpace(Tail(s))

FirstWord(s) == UpToSpace(lstrip(s))

\* The calendar days the model covers: from the first day the clock shows, over
\* the leap day, to the first of March.
WindowStart == <<2024, 2, 28>>

WindowEnd == <<2024, 3, 1>>

RECURSIVE DatesFrom(_, _)
DatesFrom(d, last) == IF d = last THEN {d} ELSE {d} \cup DatesFrom(NextDate(d), last)

WindowDates == DatesFrom(WindowStart, WindowEnd)

\* The day strings a caller passes.
WindowDays == {isoformat(d) : d \in WindowDates}

(* ------------------------------ inputs -------------------------------- *)
NameA == <<97>>
NameB == <<66>>
General == <<71, 101, 110, 101, 114, 97, 108>>

\* What a caller types as a habit name: empty, blank, padded, two user names
\* whose BINARY and NOCASE orders differ ("B" < "a" but "a" < "b"), and the
\* reserved name.
NameInputs == {<<>>, <<SPACE>>, NameA, <<SPACE, 97, SPACE>>, NameB, General}

NoteX == <<120>>

ContentInputs == {<<>>, <<SPACE>>, NoteX, <<SPACE, 120>>}

\* What a user types into the editor of the Notes tab: the short contents, a
\* text of exactly 150 characters, one of 151, one of 151 that starts with a
\* space, and 150 spaces before an "x".
EditorInputs ==
    ContentInputs \cup
        { [i \in 1..150 |-> 120], [i \in 1..151 |-> 120],
          [i \in 1..151 |-> IF i = 1 THEN SPACE ELSE 120],
          [i \in 1..151 |-> IF i = 151 THEN 120 ELSE SPACE] }

HabitIds == 1..MaxHabitId

NoteIds == 1..MaxNoteId

\* mark_done / unmark_done take a day string, or nothing (None) for today.
NoDay == <<>>

\* The Calendar tab passes any day of the window, the Habits tab today's.
DayInputs == WindowDays \cup {NoDay}

\* The days the store specification marks: today (by default) and tomorrow.
StoreDayInputs == {NoDay, isoformat(NextDate(WindowStart))}

(* ------------------------------- state -------------------------------- *)
VARIABLES
    habits,        \* table habits: set of [id, name, created_at]
    habit_logs,    \* table habit_logs: bag of [habit_id, day]
    notes,         \* table notes: set of [id, habit_id, content]
    nextHabitId,   \* sqlite_sequence of habits, plus one
    nextNoteId,    \* sqlite_sequence of notes, plus one
    today,         \* date.today()
    lastOp,        \* the data-access function called last
    err,           \* what that call raised: "none", "ValueError", "IntegrityError"
    changed,       \* whether that call changed a row of any table
    call,          \* the arguments of the derivation called last
    ret            \* what that derivation returned; in the specifications of the
                   \* clock, the tabs, the reminder and the timer, the record of
                   \* fields described at their head

vars == <<habits, habit_logs, notes, nextHabitId, nextNoteId, today, lastOp, err, changed,
          call, ret>>

trace == <<lastOp, err, changed, call, ret>>

store == <<habits, habit_logs, notes, nextHabitId, nextNoteId>>

today_str == isoformat(today)

\* The '%H:%M:%S' part of datetime.now(); the time of day is not followed, it
\* reads "12:00:00".
TimeOfDay == <<49, 50, 58, 48, 48, 58, 48, 48>>

\* datetime.now().strftime('%Y-%m-%d %H:%M:%S')
get_current_datetime == today_str \o <<SPACE>> \o TimeOfDay

HabitExists(hid) == \E h \in habits : h.id = hid

LogRow(hid, day) == [habit_id |-> hid, day |-> day]

\* Number of habit_logs rows with this habit_id and day.
Copies(logs, hid, day) == CopiesIn(LogRow(hid, day), logs)

\* The table after a DELETE that leaves the rows of kept.
KeepLogs(logs, kept) == [r \in kept |-> logs[r]]

Init ==
    /\ habits = {}
    /\ habit_logs = EmptyBag
    /\ notes = {}
    /\ nextHabitId = 1
    /\ nextNoteId = 1
    /\ today = WindowStart
    /\ lastOp = "init_db"
    /\ err = "none"
    /\ changed = FALSE
    /\ call = <<>>
    /\ ret = <<>>

(* ----------------------------- operations ----------------------------- *)
\* Mutant: the name compared with the stored names before strip().
create_habit_raises_untrimmed(name) ==
    IF strip(name) = <<>> THEN "ValueError"
    ELSE IF \E h \in habits : h.name = name THEN "IntegrityError"
    ELSE "none"

\* What create_habit raises: ValueError from the strip() check, IntegrityError
\* from habits.name UNIQUE.
create_habit_raises(name) ==
    IF strip(name) = <<>> THEN "ValueError"
    ELSE IF \E h \in habits : h.name = strip(name) THEN "IntegrityError"
    ELSE "none"

create_habit(name) ==
    IF create_habit_raises(name) # "none"
    THEN UNCHANGED <<store, today>>
    ELSE /\ nextHabitId <= MaxHabitId
         /\ habits' = habits \cup
              {[id |-> nextHabitId, name |-> strip(name),
                created_at |-> get_current_datetime]}
         /\ nextHabitId' = nextHabitId + 1
         /\ UNCHANGED <<habit_logs, notes, nextNoteId, today>>

\* Mutant: the connection without PRAGMA foreign_keys = ON (SQLite's default),
\* so that the logs of a deleted habit stay.
LogsWithoutCascade(hid) == habit_logs

\* ON DELETE CASCADE of habit_logs.habit_id (PRAGMA foreign_keys = ON).
LogsAfterDeleteHabit(hid) ==
    KeepLogs(habit_logs, {r \in DOMAIN habit_logs : r.habit_id # hid})

\* ON DELETE CASCADE of notes.habit_id.
NotesAfterDeleteHabit(hid) == {n \in notes : n.habit_id # hid}

delete_habit_raises(hid) == "none"

delete_habit(hid) ==
    /\ habits' = {h \in habits : h.id # hid}
    /\ habit_logs' = LogsAfterDeleteHabit(hid)
    /\ notes' = NotesAfterDeleteHabit(hid)
    /\ UNCHANGED <<nextHabitId, nextNoteId, today>>

\* day = day or today_str()
DayOrToday(dayArg) == IF dayArg = NoDay THEN today_str ELSE dayArg

\* Mutant: habit_logs without UNIQUE(habit_id, day), every INSERT adds a row.
LogsAfterPlainInsert(hid, day) == habit_logs (+) SetToBag({LogRow(hid, day)})

\* INSERT OR IGNORE under UNIQUE(habit_id, day): a second row is not added.
LogsAfterInsertOrIgnore(hid, day) ==
    IF Copies(habit_logs, hid, day) > 0
    THEN habit_logs
    ELSE habit_logs (+) SetToBag({LogRow(hid, day)})

\* OR IGNORE does not cover the foreign key: a missing habit raises.
mark_done_raises(hid, dayArg) ==
    IF HabitExists(hid) THEN "none" ELSE "IntegrityError"

mark_done(hid, dayArg) ==
    IF mark_done_raises(hid, dayArg) # "none"
    THEN UNCHANGED <<store, today>>
    ELSE /\ \/ Copies(habit_logs, hid, DayOrToday(dayArg)) > 0
            \/ BagCardinality(habit_logs) < MaxLogs
         /\ habit_logs' = LogsAfterInsertOrIgnore(hid, DayOrToday(dayArg))
         /\ UNCHANGED <<habits, notes, nextHabitId, nextNoteId, today>>

\* Mutant: DELETE FROM habit_logs WHERE habit_id=? without the day.
LogsAfterUnmarkEveryDay(hid, day) ==
    KeepLogs(habit_logs, {r \in DOMAIN habit_logs : r.habit_id # hid})

\* DELETE FROM habit_logs WHERE habit_id=? AND day=?
LogsAfterUnmark(hid, day) ==
    KeepLogs(habit_logs, {r \in DOMAIN habit_logs : ~(r.habit_id = hid /\ r.day = day)})

unmark_done_raises(hid, dayArg) == "none"

unmark_done(hid, dayArg) ==
    /\ habit_logs' = LogsAfterUnmark(hid, DayOrToday(dayArg))
    /\ UNCHANGED <<habits, notes, nextHabitId, nextNoteId, today>>

\* The longest text the editor of the Notes tab keeps.
MaxNoteLen == 150

\* Mutant: the text cut one character late (text[:151]).
update_char_count_one_late(text) ==
    IF Len(text) > MaxNoteLen THEN SubSeq(text, 1, MaxNoteLen + 1) ELSE text

\* NotesTab._update_char_count, run on every change of the editor: the text the
\* editor holds afterwards, text[:150] when it was longer.
update_char_count(text) ==
    IF Len(text) > MaxNoteLen THEN SubSeq(text, 1, MaxNoteLen) ELSE text

add_note_raises(hid, content) ==
    IF strip(content) = <<>> THEN "ValueError"
    ELSE IF ~HabitExists(hid) THEN "IntegrityError"
    ELSE "none"

add_note(hid, content) ==
    IF add_note_raises(hid, content) # "none"
    THEN UNCHANGED <<store, today>>
    ELSE /\ nextNoteId <= MaxNoteId
         /\ notes' = notes \cup
              {[id |-> nextNoteId, habit_id |-> hid, content |-> strip(content)]}
         /\ nextNoteId' = nextNoteId + 1
         /\ UNCHANGED <<habits, habit_logs, nextHabitId, today>>

delete_note(nid) ==
    /\ notes' = {n \in notes : n.id # nid}
    /\ UNCHANGED <<habits, habit_logs, nextHabitId, nextNoteId, today>>

\* Midnight passes: date.today() moves on by one day.
AdvanceDay ==
    /\ today # WindowEnd
    /\ today' = NextDate(today)
    /\ UNCHANGED <<store, trace>>

(* ------------------------------ queries ------------------------------- *)
is_done_on_day(hid, day) == Copies(habit_logs, hid, day) > 0

\* ORDER BY name under the BINARY collation of habits.name.
RECURSIVE OrderByName(_)
OrderByName(S) ==
    IF S = {} THEN <<>>
    ELSE LET m == CHOOSE x \in S : \A y \in S : ~TextLess(y.name, x.name)
         IN <<m>> \o OrderByName(S \ {m})

\* Rows in rowid order: a scan of the habits table itself.
RECURSIVE OrderById(_)
OrderById(S) ==
    IF S = {} THEN <<>>
    ELSE LET m == CHOOSE x \in S : \A y \in S : x.id <= y.id
         IN <<m>> \o OrderById(S \ {m})

list_habits == OrderByName(habits)

Repeat(x, n) == [i \in 1..n |-> x]

\* ORDER BY day on the selected rows; a day comes once per row that holds it.
RECURSIVE OrderByDay(_)
OrderByDay(rows) ==
    IF rows = {} THEN <<>>
    ELSE LET m == CHOOSE x \in rows : \A y \in rows : ~TextLess(y.day, x.day)
         IN Repeat(m.day, habit_logs[m]) \o OrderByDay(rows \ {m})

\* Mutant: the upper end of the range left out (day >= start AND day < end).
get_done_days_half_open(hid, start_day, end_day) ==
    OrderByDay({r \in DOMAIN habit_logs :
        r.habit_id = hid /\ TextLeq(start_day, r.day) /\ TextLess(r.day, end_day)})

get_done_days_in_range(hid, start_day, end_day) ==
    OrderByDay({r \in DOMAIN habit_logs :
        r.habit_id = hid /\ Between(r.day, start_day, end_day)})

Range(seq) == {seq[i] : i \in 1..Len(seq)}

\* while d.isoformat() in done: streak += 1; d = d - timedelta(days=1)
RECURSIVE StreakLoop(_, _)
StreakLoop(d, done) ==
    IF isoformat(d) \in done THEN 1 + StreakLoop(PrevDate(d), done) ELSE 0

\* The lower end current_streak gives its range: "0001-01-01".
FirstIsoDay == isoformat(<<1, 1, 1>>)

\* Mutant: the number of done days up to today, consecutive or not.
current_streak_counting_all(hid) ==
    Len(get_done_days_in_range(hid, FirstIsoDay, today_str))

\* Mutant: a streak that ended yesterday still counts when today is not done.
current_streak_from_yesterday(hid) ==
    LET done == Range(get_done_days_in_range(hid, FirstIsoDay, today_str))
    IN IF today_str \in done THEN StreakLoop(today, done)
       ELSE StreakLoop(PrevDate(today), done)

current_streak(hid) ==
    StreakLoop(today, Range(get_done_days_in_range(hid, FirstIsoDay, today_str)))

\* What current_streak raises: its SELECT on habit_logs returns no row for an id
\* that habits does not hold, the set is empty and the loop ends at once.
current_streak_raises(hid) == "none"

\* Mutant: the loop starts at the habit's latest row instead of today.
stats_streak_from_latest_row(hid) ==
    LET done == {r.day : r \in {x \in DOMAIN habit_logs : x.habit_id = hid}}
    IN IF done = {} THEN 0
       ELSE StreakLoop(fromisoformat(CHOOSE d \in done : \A e \in done : ~TextLess(d, e)),
                       done)

\* The streak loop of ui_stats.get_best_streak, over every row of the habit.
stats_streak(hid) ==
    StreakLoop(today, {r.day : r \in {x \in DOMAIN habit_logs : x.habit_id = hid}})

\* best_name = "None"
NoneName == <<78, 111, 110, 101>>

\* The habits every statistic is about: WHERE name != 'General'.
Counted == {h \in habits : h.name # General}

\* SELECT id, name FROM habits WHERE name != 'General' has no ORDER BY: SQLite
\* returns the rows in the order of the scan it picks, the table (by rowid) or
\* the covering index of the UNIQUE name (by name).
BestStreakRowOrders == {OrderById(Counted), OrderByName(Counted)}

RECURSIVE BestStreakLoop(_, _, _)
BestStreakLoop(rows, i, best) ==
    IF i > Len(rows) THEN best
    ELSE BestStreakLoop(rows, i + 1,
            IF stats_streak(rows[i].id) > best.streak
            THEN [name |-> rows[i].name, streak |-> stats_streak(rows[i].id)]
            ELSE best)

\* Mutant: "if streak >= best_streak" for a positive streak, so of the habits
\* with the greatest streak the last one wins.
RECURSIVE BestStreakLoopLastWins(_, _, _)
BestStreakLoopLastWins(rows, i, best) ==
    IF i > Len(rows) THEN best
    ELSE BestStreakLoopLastWins(rows, i + 1,
            IF stats_streak(rows[i].id) >= best.streak /\ stats_streak(rows[i].id) > 0
            THEN [name |-> rows[i].name, streak |-> stats_streak(rows[i].id)]
            ELSE best)

get_best_streak_last_wins(rows) ==
    BestStreakLoopLastWins(rows, 1, [name |-> NoneName, streak |-> 0])

\* Mutant: best_name starts as the first habit's name instead of "None".
get_best_streak_named_first(rows) ==
    BestStreakLoop(rows, 1,
        [name |-> IF rows = <<>> THEN NoneName ELSE rows[1].name, streak |-> 0])

\* get_best_streak() for one order of the fetched rows.
get_best_streak(rows) == BestStreakLoop(rows, 1, [name |-> NoneName, streak |-> 0])

\* habits = [h for h in list_habits() if h.name != "General"]
ReportHabits == SelectSeq(list_habits, LAMBDA h : h.name # General)

\* The loop of _generate_all_time_report: max_streak = 0, best_habit = "".
RECURSIVE AllTimeBestLoop(_, _, _)
AllTimeBestLoop(hs, i, best) ==
    IF i > Len(hs) THEN best
    ELSE AllTimeBestLoop(hs, i + 1,
            IF current_streak(hs[i].id) > best.streak
            THEN [name |-> hs[i].name, streak |-> current_streak(hs[i].id)]
            ELSE best)

all_time_best == AllTimeBestLoop(ReportHabits, 1, [name |-> <<>>, streak |-> 0])

\* StatsTab.refresh: best_habit if best_streak_days > 0 else "No active streaks"
streak_subtitle(best) == IF best.streak > 0 THEN best.name ELSE "No active streaks"

\* Mutant: start = today - n, so that the window ends yesterday.
days_back_before_today(n) ==
    LET start == AddDays(today, -n)
    IN [i \in 1..n |-> isoformat(AddDays(start, i - 1))]

\* days_back(n): start = today - (n - 1), then start + i for i in range(n);
\* range(n) is empty for n <= 0.
days_back(n) ==
    LET start == AddDays(today, -(n - 1))
    IN [i \in 1..n |-> isoformat(AddDays(start, i - 1))]

\* COUNT(*) of the habit's rows WHERE day BETWEEN ? AND ?
CountInRange(hid, start_day, end_day) ==
    BagCardinality([r \in {x \in DOMAIN habit_logs :
                              x.habit_id = hid /\ Between(x.day, start_day, end_day)}
                       |-> habit_logs[r]])

\* A rate dc / n is kept as the pair <<dc, n>>; floats of one denominator and of
\* different ones compare as the fractions do.
RateLess(a, b) == a[1] * b[2] < b[1] * a[2]

RateEq(a, b) == a[1] * b[2] = b[1] * a[2]

\* Mutant: the key without .lower(): (-t[2], t[0].name).
sort_key_case_sensitive(t) == <<t.rate, t.habit.name>>

\* key=lambda t: (-t[2], t[0].name.lower()), kept as <<rate, name>>
sort_key(t) == <<t.rate, lower(t.habit.name)>>

\* (-r1, n1) < (-r2, n2) on two keys
KeyLess(a, b) ==
    \/ RateLess(b[1], a[1])
    \/ RateEq(a[1], b[1]) /\ TextLess(a[2], b[2])

\* list.sort is stable: an element goes before the first one whose key is
\* greater than its own.
RECURSIVE InsertByKey(_, _)
InsertByKey(sorted, x) ==
    IF sorted = <<>> THEN <<x>>
    ELSE IF KeyLess(sort_key(x), sort_key(Head(sorted))) THEN <<x>> \o sorted
    ELSE <<Head(sorted)>> \o InsertByKey(Tail(sorted), x)

RECURSIVE SortByKey(_, _)
SortByKey(seq, i) ==
    IF i = 0 THEN <<>> ELSE InsertByKey(SortByKey(seq, i - 1), seq[i])

\* out before the sort: one (habit, dc, rate) per habit of list_habits().
PerHabitRows(days) ==
    LET ds == days_back(days)
        hs == list_habits
    IN [i \in 1..Len(hs) |->
           LET dc == CountInRange(hs[i].id, ds[1], ds[Len(ds)])
           IN [habit |-> hs[i], done |-> dc, rate |-> <<dc, Len(ds)>>]]

\* Mutant: the rows taken from done_map alone (an inner join), so that a habit
\* without a row in the range gets no entry.
per_habit_last_n_days_inner_join(days) ==
    LET rows == SelectSeq(PerHabitRows(days), LAMBDA t : t.done > 0)
    IN SortByKey(rows, Len(rows))

per_habit_last_n_days(days) ==
    LET out == PerHabitRows(days) IN SortByKey(out, Len(out))

\* ORDER BY name COLLATE NOCASE
RECURSIVE OrderByNameNoCase(_)
OrderByNameNoCase(S) ==
    IF S = {} THEN <<>>
    ELSE LET m == CHOOSE x \in S : \A y \in S : ~TextLess(lower(y.name), lower(x.name))
         IN <<m>> \o OrderByNameNoCase(S \ {m})

\* habits LEFT JOIN the counts, WHERE name != 'General': (name, COALESCE(c, 0)).
per_habit_done_in_range(start_day, end_day) ==
    LET hs == OrderByNameNoCase(Counted) IN
    [i \in 1..Len(hs) |->
        [name |-> hs[i].name, done |-> CountInRange(hs[i].id, start_day, end_day)]]

\* The Habit Breakdown table of StatsTab.refresh: rate_h = done_count / len(ds).
stats_table(days) ==
    LET ds == days_back(days)
        per == per_habit_done_in_range(ds[1], ds[Len(ds)])
    IN [i \in 1..Len(per) |->
           [name |-> per[i].name, done |-> per[i].done,
            rate |-> <<per[i].done, Len(ds)>>]]

\* COUNT(*) of the selected habit_logs rows.
RowCount(rows) == BagCardinality([r \in rows |-> habit_logs[r]])

\* habit_logs hl JOIN habits h ON hl.habit_id = h.id
\* WHERE hl.day BETWEEN ? AND ? AND h.name != 'General'
JoinedRows(start_day, end_day) ==
    {r \in DOMAIN habit_logs :
        /\ \E h \in habits : h.id = r.habit_id /\ h.name # General
        /\ Between(r.day, start_day, end_day)}

\* SELECT COUNT(*) FROM habits WHERE name != 'General'
total_habits_count == Cardinality(Counted)

total_done_in_range(start_day, end_day) == RowCount(JoinedRows(start_day, end_day))

\* out = {d: 0 for d in ds}, then out[day] = c for every grouped row.
daily_completion_counts(days) ==
    LET ds == days_back(days)
        rows == JoinedRows(ds[1], ds[Len(ds)])
    IN [d \in Range(ds) \cup {r.day : r \in rows} |-> RowCount({r \in rows : r.day = d})]

weekday_names == <<"Mon", "Tue", "Wed", "Thu", "Fri", "Sat", "Sun">>

\* Mutant: the bucket taken from the weekday of the range's first day instead of
\* the row's own day.
get_completion_by_weekday_of_start(start_day, end_day) ==
    LET rows == JoinedRows(start_day, end_day) IN
    [w \in Range(weekday_names) |->
        RowCount({r \in rows :
            weekday_names[weekday(fromisoformat(start_day)) + 1] = w})]

\* weekday_counts[weekday_names[d.weekday()]] += c for every grouped row
get_completion_by_weekday(start_day, end_day) ==
    LET rows == JoinedRows(start_day, end_day) IN
    [w \in Range(weekday_names) |->
        RowCount({r \in rows :
            weekday_names[weekday(fromisoformat(r.day)) + 1] = w})]

\* The rate 0.0, as a pair.
ZeroRate == <<0, 1>>

\* Mutant: total_slots taken as the number of habits alone.
stats_overall_per_habit(days) ==
    LET ds == days_back(days)
        done_total == total_done_in_range(ds[1], ds[Len(ds)])
        total_slots == total_habits_count
    IN [habits |-> total_habits_count, days |-> Len(ds), done |-> done_total,
        total |-> total_slots,
        rate |-> IF total_slots # 0 THEN <<done_total, total_slots>> ELSE ZeroRate]

\* The head of StatsTab.refresh: habits, done_total, total_slots, rate.
stats_overall(days) ==
    LET ds == days_back(days)
        done_total == total_done_in_range(ds[1], ds[Len(ds)])
        total_slots == total_habits_count * Len(ds)
    IN [habits |-> total_habits_count, days |-> Len(ds), done |-> done_total,
        total |-> total_slots,
        rate |-> IF total_slots # 0 THEN <<done_total, total_slots>> ELSE ZeroRate]

\* models.stats_for_range: every habit of list_habits() and every habit_logs row
\* of the range.
stats_for_range(days) ==
    LET habit_list == list_habits IN
    IF habit_list = <<>>
    THEN [habits |-> 0, days |-> days, done |-> 0, total |-> 0, rate |-> ZeroRate]
    ELSE LET days_list == days_back(days)
             done == RowCount({r \in DOMAIN habit_logs :
                         Between(r.day, days_list[1], days_list[Len(days_list)])})
             total == Len(habit_list) * Len(days_list)
         IN [habits |-> Len(habit_list), days |-> Len(days_list), done |-> done,
             total |-> total,
             rate |-> IF total # 0 THEN <<done, total>> ELSE ZeroRate]

(* ----------------------------- milestones ----------------------------- *)
\* The lower end the milestones and the all-time report count from: "2000-01-01".
FirstCountedDay == isoformat(<<2000, 1, 1>>)

\* The loop of MilestonesTab.refresh over the habits: total_completions,
\* max_streak and total_streaks.
RECURSIVE MilestoneCounters(_, _, _)
MilestoneCounters(hs, i, acc) ==
    IF i > Len(hs) THEN acc
    ELSE LET streak == current_streak(hs[i].id)
             completions == get_done_days_in_range(hs[i].id, FirstCountedDay, today_str)
         IN MilestoneCounters(hs, i + 1,
                [total_completions |-> acc.total_completions + Len(completions),
                 max_streak |-> IF streak > acc.max_streak THEN streak ELSE acc.max_streak,
                 total_streaks |-> acc.total_streaks + streak])

\* milestones = [(title, description, progress, target), ...]
milestone_ladder(total_completions, max_streak, habit_count) ==
    << [title |-> "First Step", progress |-> total_completions, target |-> 1],
       [title |-> "Getting Started", progress |-> total_completions, target |-> 10],
       [title |-> "Building Momentum", progress |-> total_completions, target |-> 50],
       [title |-> "Habit Master", progress |-> total_completions, target |-> 100],
       [title |-> "Legendary", progress |-> total_completions, target |-> 500],
       [title |-> "Week Warrior", progress |-> max_streak, target |-> 7],
       [title |-> "Month Master", progress |-> max_streak, target |-> 30],
       [title |-> "Quarter Champion", progress |-> max_streak, target |-> 90],
       [title |-> "Year Legend", progress |-> max_streak, target |-> 365],
       [title |-> "Habit Collector", progress |-> habit_count, target |-> 5],
       [title |-> "Routine Builder", progress |-> habit_count, target |-> 10],
       [title |-> "Lifestyle Designer", progress |-> habit_count, target |-> 20] >>

\* Mutant: earned only while the counter stands exactly on the target.
is_earned_on_target(progress, target) == progress = target

\* earned = progress >= target
is_earned(progress, target) == progress >= target

\* Mutant: the whole target shown as what remains.
MilestoneCardWholeTarget(m) ==
    LET earned == is_earned(m.progress, m.target) IN
    [title |-> m.title, progress |-> m.progress, target |-> m.target, earned |-> earned,
     status |-> IF earned THEN <<"Completed!">> ELSE <<"more to go", m.target>>]

\* MilestoneCard: "Completed!" when earned, else "{target - progress} more to go".
MilestoneCard(m) ==
    LET earned == is_earned(m.progress, m.target) IN
    [title |-> m.title, progress |-> m.progress, target |-> m.target, earned |-> earned,
     status |-> IF earned THEN <<"Completed!">>
                ELSE <<"more to go", m.target - m.progress>>]

\* The cards in the order they are added to the layout.
milestone_cards(total_completions, max_streak, habit_count) ==
    LET ms == milestone_ladder(total_completions, max_streak, habit_count)
    IN [i \in 1..Len(ms) |-> MilestoneCard(ms[i])]

\* One more for every threshold reached.
Inc(cond) == IF cond THEN 1 ELSE 0

\* Mutant: the "Quarter Champion" threshold left out of the count.
count_earned_milestones_without_quarter(total_completions, max_streak, habit_count) ==
    Inc(total_completions >= 1) + Inc(total_completions >= 10)
    + Inc(total_completions >= 50) + Inc(total_completions >= 100)
    + Inc(total_completions >= 500)
    + Inc(max_streak >= 7) + Inc(max_streak >= 30) + Inc(max_streak >= 365)
    + Inc(habit_count >= 5) + Inc(habit_count >= 10) + Inc(habit_count >= 20)

count_earned_milestones(total_completions, max_streak, habit_count) ==
    Inc(total_completions >= 1) + Inc(total_completions >= 10)
    + Inc(total_completions >= 50) + Inc(total_completions >= 100)
    + Inc(total_completions >= 500)
    + Inc(max_streak >= 7) + Inc(max_streak >= 30) + Inc(max_streak >= 90)
    + Inc(max_streak >= 365)
    + Inc(habit_count >= 5) + Inc(habit_count >= 10) + Inc(habit_count >= 20)

\* MilestonesTab.refresh on the store: nothing but a hint without habits, else
\* the counters, the number earned and the cards.
milestones_refresh ==
    LET hs == ReportHabits IN
    IF hs = <<>>
    THEN [habits |-> 0, cards |-> <<>>]
    ELSE LET c == MilestoneCounters(hs, 1,
                      [total_completions |-> 0, max_streak |-> 0, total_streaks |-> 0])
         IN [habits |-> Len(hs),
             total_completions |-> c.total_completions,
             max_streak |-> c.max_streak,
             earned_count |->
                 count_earned_milestones(c.total_completions, c.max_streak, Len(hs)),
             cards |-> milestone_cards(c.total_completions, c.max_streak, Len(hs))]

(* ------------------------------ reports ------------------------------- *)
\* total_completions += count over the lines of a report
RECURSIVE SumOfCounts(_, _)
SumOfCounts(lines, i) == IF i = 0 THEN 0 ELSE SumOfCounts(lines, i - 1) + lines[i].count

\* (total_completions / total_possible * 100) if total_possible > 0 else 0
OverallRate(total_completions, total_possible) ==
    IF total_possible > 0 THEN <<total_completions, total_possible>> ELSE ZeroRate

\* _generate_weekly_report: Monday of this week to today, every rate over 7.
weekly_report ==
    LET week_start == AddDays(today, -weekday(today))
        hs == ReportHabits
        lines == [i \in 1..Len(hs) |->
                     LET count == Len(get_done_days_in_range(hs[i].id,
                                         isoformat(week_start), today_str))
                     IN [name |-> hs[i].name, count |-> count, rate |-> <<count, 7>>]]
        total_completions == SumOfCounts(lines, Len(lines))
        total_possible == Len(hs) * 7
    IN IF hs = <<>> THEN [habits |-> 0, lines |-> <<>>]
       ELSE [habits |-> Len(hs), lines |-> lines,
             total_completions |-> total_completions,
             total_possible |-> total_possible,
             overall_rate |-> OverallRate(total_completions, total_possible)]

\* _generate_monthly_report: the first of this month to today.
monthly_report ==
    LET month_start == <<today[1], today[2], 1>>
        hs == ReportHabits
        days_in_month == DaysBetween(today, month_start) + 1
        lines == [i \in 1..Len(hs) |->
                     LET count == Len(get_done_days_in_range(hs[i].id,
                                         isoformat(month_start), today_str))
                     IN [name |-> hs[i].name, count |-> count,
                         rate |-> <<count, days_in_month>>,
                         streak |-> current_streak(hs[i].id)]]
        total_completions == SumOfCounts(lines, Len(lines))
        total_possible == Len(hs) * days_in_month
    IN IF hs = <<>> THEN [habits |-> 0, lines |-> <<>>]
       ELSE [habits |-> Len(hs), lines |-> lines,
             total_completions |-> total_completions,
             total_possible |-> total_possible,
             overall_rate |-> OverallRate(total_completions, total_possible)]

\* _generate_all_time_report: "2000-01-01" to today, each habit's rate over the
\* days since its created_at.
all_time_report ==
    LET hs == ReportHabits
        lines == [i \in 1..Len(hs) |->
                     LET count == Len(get_done_days_in_range(hs[i].id,
                                         FirstCountedDay, today_str))
                         created == fromisoformat(FirstWord(hs[i].created_at))
                         days_since == DaysBetween(today, created) + 1
                     IN [name |-> hs[i].name, count |-> count,
                         streak |-> current_streak(hs[i].id),
                         rate |-> IF days_since > 0 THEN <<count, days_since>>
                                  ELSE ZeroRate]]
    IN IF hs = <<>> THEN [habits |-> 0, lines |-> <<>>]
       ELSE [habits |-> Len(hs), lines |-> lines,
             total_completions |-> SumOfCounts(lines, Len(lines)),
             max_streak |-> all_time_best.streak,
             best_habit |-> all_time_best.name]

(* ------------------- the store and its callers' errors ---------------- *)
\* Every data-access call, with what it raised recorded.
CreateHabit ==
    \E name \in NameInputs :
        create_habit(name) /\ lastOp' = "create_habit" /\ err' = create_habit_raises(name)
            /\ changed' = (store' # store)
            /\ UNCHANGED <<call, ret>>

DeleteHabit ==
    \E hid \in HabitIds :
        delete_habit(hid) /\ lastOp' = "delete_habit" /\ err' = delete_habit_raises(hid)
            /\ changed' = (store' # store)
            /\ UNCHANGED <<call, ret>>

MarkDone ==
    \E hid \in HabitIds, day \in StoreDayInputs :
        mark_done(hid, day) /\ lastOp' = "mark_done" /\ err' = mark_done_raises(hid, day)
            /\ changed' = (store' # store)
            /\ UNCHANGED <<call, ret>>

UnmarkDone ==
    \E hid \in HabitIds, day \in StoreDayInputs :
        unmark_done(hid, day) /\ lastOp' = "unmark_done"
            /\ err' = unmark_done_raises(hid, day)
            /\ changed' = (store' # store)
            /\ UNCHANGED <<call, ret>>

AddNote ==
    \E hid \in HabitIds, content \in ContentInputs :
        add_note(hid, update_char_count(content)) /\ lastOp' = "add_note"
            /\ err' = add_note_raises(hid, update_char_count(content))
            /\ changed' = (store' # store)
            /\ UNCHANGED <<call, ret>>

DeleteNote ==
    \E nid \in NoteIds :
        delete_note(nid) /\ lastOp' = "delete_note" /\ err' = "none"
            /\ changed' = (store' # store)
            /\ UNCHANGED <<call, ret>>

Next ==
    \/ CreateHabit
    \/ DeleteHabit
    \/ MarkDone
    \/ UnmarkDone
    \/ AddNote
    \/ DeleteNote

Spec == Init /\ [][Next]_vars

(* ------------------ the habit log under a moving clock ---------------- *)
\* The Habits and Calendar tabs over the whole window of days, with the clock
\* advancing; the statistics are functions of these states.
StatsCreateHabit ==
    \E name \in NameInputs : create_habit(name) /\ UNCHANGED trace

StatsDeleteHabit ==
    \E hid \in HabitIds : delete_habit(hid) /\ UNCHANGED trace

StatsMarkDone ==
    \E hid \in HabitIds, day \in DayInputs :
        mark_done(hid, day) /\ UNCHANGED trace

StatsUnmarkDone ==
    \E hid \in HabitIds, day \in DayInputs :
        unmark_done(hid, day) /\ UNCHANGED trace

StatsNext ==
    \/ StatsCreateHabit
    \/ StatsDeleteHabit
    \/ StatsMarkDone
    \/ StatsUnmarkDone
    \/ AdvanceDay

SpecStats == Init /\ [][StatsNext]_vars

(* --------------------- the day windows, called directly --------------- *)
\* The days the clock may show when a window is asked for: the days of the
\* model's window, a first of January, the turn of a year and the first of March
\* of a year that is not a leap year.
ClockDates ==
    WindowDates \cup {<<2024, 1, 1>>, <<2024, 12, 31>>, <<2025, 1, 1>>, <<2023, 3, 1>>}

\* The day counts a caller passes: none and a negative one, the shortest, the
\* choices of the Stats tab (7, 30, 90), one between, and the 365 of its grid.
DayCountInputs == {-1, 0, 1, 2, 7, 30, 90, 365}

\* The day counts the two statistics of models.py are called with.
StatsDayCountInputs == {n \in DayCountInputs : n <= 30}

DaysInit ==
    /\ habits = {}
    /\ habit_logs = EmptyBag
    /\ notes = {}
    /\ nextHabitId = 1
    /\ nextNoteId = 1
    /\ today \in ClockDates
    /\ lastOp = "init_db"
    /\ err = "none"
    /\ changed = FALSE
    /\ call = <<>>
    /\ ret = <<>>

\* days_back has no check of n: it raises nothing.
days_back_raises(n) == "none"

\* days_list[0] of an empty days_list, reached only with habits in the store.
stats_for_range_raises(days) ==
    IF list_habits # <<>> /\ days_back(days) = <<>> THEN "IndexError" ELSE "none"

per_habit_last_n_days_raises(days) ==
    IF list_habits # <<>> /\ days_back(days) = <<>> THEN "IndexError" ELSE "none"

DaysCreateHabit ==
    /\ create_habit(NameA)
    /\ lastOp' = "create_habit"
    /\ err' = create_habit_raises(NameA)
    /\ changed' = (store' # store)
    /\ UNCHANGED <<call, ret>>

CallDaysBack ==
    \E n \in DayCountInputs :
        /\ lastOp' = "days_back"
        /\ call' = <<n>>
        /\ err' = days_back_raises(n)
        /\ ret' = days_back(n)
        /\ changed' = FALSE
        /\ UNCHANGED <<store, today>>

CallStatsForRange ==
    \E days \in StatsDayCountInputs :
        /\ lastOp' = "stats_for_range"
        /\ call' = <<days>>
        /\ err' = stats_for_range_raises(days)
        /\ ret' = IF stats_for_range_raises(days) = "none"
                  THEN stats_for_range(days) ELSE <<>>
        /\ changed' = FALSE
        /\ UNCHANGED <<store, today>>

CallPerHabitLastNDays ==
    \E days \in StatsDayCountInputs :
        /\ lastOp' = "per_habit_last_n_days"
        /\ call' = <<days>>
        /\ err' = per_habit_last_n_days_raises(days)
        /\ ret' = IF per_habit_last_n_days_raises(days) = "none"
                  THEN per_habit_last_n_days(days) ELSE <<>>
        /\ changed' = FALSE
        /\ UNCHANGED <<store, today>>

DaysNext ==
    \/ DaysCreateHabit
    \/ CallDaysBack
    \/ CallStatsForRange
    \/ CallPerHabitLastNDays

SpecDays == DaysInit /\ [][DaysNext]_vars

(* ------------------- the milestones of given counters ----------------- *)
\* The counters the Milestones tab evaluates: values on, next to and between the
\* targets. The tab evaluates only with a habit in the store, and a streak is
\* never longer than the completions counted.
CompletionInputs == {0, 1, 9, 10, 11, 49, 50, 100, 499, 500}

StreakInputs == {0, 1, 6, 7, 29, 30, 90, 364, 365}

HabitCountInputs == {1, 4, 5, 9, 10, 19, 20}

\* The tail of MilestonesTab.refresh for given counters: the number earned and
\* the cards.
EvaluateMilestones ==
    \E total_completions \in CompletionInputs, max_streak \in StreakInputs,
       habit_count \in HabitCountInputs :
        /\ max_streak <= total_completions
        /\ lastOp' = "milestones"
        /\ call' = <<total_completions, max_streak, habit_count>>
        /\ err' = "none"
        /\ ret' = [earned_count |->
                       count_earned_milestones(total_completions, max_streak, habit_count),
                   cards |-> milestone_cards(total_completions, max_streak, habit_count)]
        /\ changed' = FALSE
        /\ UNCHANGED <<store, today>>

MilestonesNext == EvaluateMilestones

SpecMilestones == Init /\ [][MilestonesNext]_vars

(* --------------- what the Habits and Notes tabs hand over ------------- *)
\* The habits and the notes alone, with the argument of every call recorded.
\* The names handed to create_habit here are those of HabitsTab._add_habit,
\* which never passes "General" on.
EntryNameInputs == {name \in NameInputs : name # General}

EntryCreateHabit ==
    \E name \in EntryNameInputs :
        /\ create_habit(name)
        /\ lastOp' = "create_habit"
        /\ call' = <<name>>
        /\ err' = create_habit_raises(name)
        /\ changed' = (store' # store)
        /\ UNCHANGED ret

EntryDeleteHabit ==
    \E hid \in HabitIds :
        /\ delete_habit(hid)
        /\ lastOp' = "delete_habit"
        /\ call' = <<hid>>
        /\ err' = delete_habit_raises(hid)
        /\ changed' = (store' # store)
        /\ UNCHANGED ret

\* NotesTab._add_note: add_note(hid, self.editor.toPlainText())
EntryAddNote ==
    \E hid \in HabitIds, typed \in EditorInputs :
        LET text == update_char_count(typed) IN
        /\ add_note(hid, text)
        /\ lastOp' = "add_note"
        /\ call' = <<hid, text>>
        /\ err' = add_note_raises(hid, text)
        /\ changed' = (store' # store)
        /\ UNCHANGED ret

EntryDeleteNote ==
    \E nid \in NoteIds :
        /\ delete_note(nid)
        /\ lastOp' = "delete_note"
        /\ call' = <<nid>>
        /\ err' = "none"
        /\ changed' = (store' # store)
        /\ UNCHANGED ret

EntryNext ==
    \/ EntryCreateHabit
    \/ EntryDeleteHabit
    \/ EntryAddNote
    \/ EntryDeleteNote

SpecEntry == Init /\ [][EntryNext]_vars

(* ------------------- the streak from one day to the next -------------- *)
\* The habit log while the days pass, with what the streaks were when the day
\* last changed: ret.yesterday[hid] is current_streak(hid) as it was computed
\* just before the change, ret.untouched the habit ids that no mark_done or
\* unmark_done has named since.
ClockNameInputs == {NameA, NameB}

ClockInit ==
    /\ habits = {}
    /\ habit_logs = EmptyBag
    /\ notes = {}
    /\ nextHabitId = 1
    /\ nextNoteId = 1
    /\ today = WindowStart
    /\ lastOp = "init_db"
    /\ err = "none"
    /\ changed = FALSE
    /\ call = <<>>
    /\ ret = [yesterday |-> [hid \in HabitIds |-> 0], untouched |-> {}]

ClockCreateHabit ==
    \E name \in ClockNameInputs :
        /\ create_habit(name)
        /\ lastOp' = "create_habit"
        /\ call' = <<name>>
        /\ err' = create_habit_raises(name)
        /\ changed' = (store' # store)
        /\ UNCHANGED ret

\* HabitsTab._toggle_done (today) and CalendarTab._habit_toggled (the selected
\* date), checked, for a habit of the list.
ClockMarkDone ==
    \E hid \in {h.id : h \in habits}, day \in WindowDays :
        /\ mark_done(hid, day)
        /\ lastOp' = "mark_done"
        /\ call' = <<hid, day, hid \in ret.untouched>>
        /\ err' = mark_done_raises(hid, day)
        /\ changed' = (store' # store)
        /\ ret' = [ret EXCEPT !.untouched = @ \ {hid}]

\* The same two handlers, unchecked.
ClockUnmarkDone ==
    \E hid \in {h.id : h \in habits}, day \in WindowDays :
        /\ unmark_done(hid, day)
        /\ lastOp' = "unmark_done"
        /\ call' = <<hid, day, hid \in ret.untouched>>
        /\ err' = unmark_done_raises(hid, day)
        /\ changed' = (store' # store)
        /\ ret' = [ret EXCEPT !.untouched = @ \ {hid}]

\* Midnight: date.today() returns the next day from now on.
ClockDayChange ==
    /\ today # WindowEnd
    /\ today' = NextDate(today)
    /\ lastOp' = "day_change"
    /\ call' = <<>>
    /\ err' = "none"
    /\ changed' = FALSE
    /\ ret' = [yesterday |-> [hid \in HabitIds |-> current_streak(hid)],
               untouched |-> HabitIds]
    /\ UNCHANGED store

ClockNext ==
    \/ ClockCreateHabit
    \/ ClockMarkDone
    \/ ClockUnmarkDone
    \/ ClockDayChange

SpecClock == ClockInit /\ [][ClockNext]_vars

(* ------------------------ what the tabs show -------------------------- *)
\* HabitsTab.refresh: a row (name, done today, streak) for every habit of
\* list_habits() but General.
habits_tab_rows ==
    LET hs == ReportHabits IN
    [i \in 1..Len(hs) |->
        [name |-> hs[i].name,
         done_today |-> is_done_on_day(hs[i].id, today_str),
         streak |-> current_streak(hs[i].id)]]

\* The range the Stats tab starts with: "Last 30 days".
DefaultStatsDays == 30

\* What the four tabs show when all are refreshed on the store as it is: the
\* rows of the Habits tab, the head of the Stats tab, the Milestones tab and the
\* report of the Reports tab (the weekly one, the first of its choices).
refresh_all ==
    [habits_tab |-> habits_tab_rows,
     stats_tab |-> stats_overall(DefaultStatsDays),
     milestones_tab |-> milestones_refresh,
     reports_tab |-> weekly_report]

\* MainWindow.__init__: init_db(), the tabs, then _refresh_all(). ret.shown is
\* what the tabs show; ret.pending says that data_changed has been emitted and
\* its slot _refresh_all has still to run, which it does before anything else.
TabsInit ==
    /\ habits = {}
    /\ habit_logs = EmptyBag
    /\ notes = {}
    /\ nextHabitId = 1
    /\ nextNoteId = 1
    /\ today = NextDate(WindowStart)
    /\ lastOp = "init_db"
    /\ err = "none"
    /\ changed = FALSE
    /\ call = <<>>
    /\ ret = [shown |-> refresh_all, pending |-> FALSE]

\* HabitsTab._add_habit: create_habit, then data_changed, which MainWindow has
\* connected to _refresh_all; an exception skips the signal.
TabsAddHabit ==
    \E name \in ClockNameInputs :
        /\ ~ret.pending
        /\ create_habit(name)
        /\ lastOp' = "add_habit"
        /\ call' = <<name>>
        /\ err' = create_habit_raises(name)
        /\ changed' = (store' # store)
        /\ ret' = [ret EXCEPT !.pending = (create_habit_raises(name) = "none")]

\* HabitsTab._delete: delete_habit, then data_changed.
TabsDeleteHabit ==
    \E hid \in {h.id : h \in Counted} :
        /\ ~ret.pending
        /\ delete_habit(hid)
        /\ lastOp' = "delete_habit"
        /\ call' = <<hid>>
        /\ err' = delete_habit_raises(hid)
        /\ changed' = (store' # store)
        /\ ret' = [ret EXCEPT !.pending = TRUE]

\* HabitsTab._toggle_done on a row of the list: unmark_done if today is done,
\* else mark_done, then data_changed.
TabsToggleDone ==
    \E hid \in {h.id : h \in Counted} :
        /\ ~ret.pending
        /\ IF is_done_on_day(hid, today_str)
           THEN unmark_done(hid, today_str)
           ELSE mark_done(hid, today_str)
        /\ lastOp' = "toggle_done"
        /\ call' = <<hid, today_str>>
        /\ err' = "none"
        /\ changed' = (store' # store)
        /\ ret' = [ret EXCEPT !.pending = TRUE]

\* CalendarTab._habit_toggled on the selected date: mark_done if the box is now
\* checked, else unmark_done, then self.refresh(), the calendar's own; the tab
\* has no data_changed.
TabsCalendarToggle ==
    \E hid \in {h.id : h \in Counted}, day \in WindowDays :
        /\ ~ret.pending
        /\ IF is_done_on_day(hid, day)
           THEN unmark_done(hid, day)
           ELSE mark_done(hid, day)
        /\ lastOp' = "calendar_toggle"
        /\ call' = <<hid, day>>
        /\ err' = "none"
        /\ changed' = (store' # store)
        /\ UNCHANGED ret

\* MainWindow._refresh_all, the slot of data_changed.
RefreshAll ==
    /\ ret.pending
    /\ ret' = [shown |-> refresh_all, pending |-> FALSE]
    /\ UNCHANGED <<store, today, lastOp, err, changed, call>>

TabsNext ==
    \/ TabsAddHabit
    \/ TabsDeleteHabit
    \/ TabsToggleDone
    \/ TabsCalendarToggle
    \/ RefreshAll

SpecTabs == TabsInit /\ [][TabsNext]_vars

(* ------------------------- the daily reminder ------------------------- *)
\* The in-app check (MainWindow._show_daily_reminder, run by the minute timer)
\* and the standalone script (notify.py, run by the task scheduler) share the
\* file last_notification.txt. ret holds the file and the two runs:
\*   ret.file    the text of last_notification.txt, NoFile while it is missing;
\*   ret.app     where the in-app check stands, ret.script where the script does:
\*               "idle", "write" (the file read and found without today's date),
\*               "show" (today's date written, the reminder not shown yet);
\*   ret.shown   the reminders shown on the calendar day that today is.
NoFile == <<"no file">>

ReminderInit ==
    /\ habits = {}
    /\ habit_logs = EmptyBag
    /\ notes = {}
    /\ nextHabitId = 1
    /\ nextNoteId = 1
    /\ today = WindowStart
    /\ lastOp = "init_db"
    /\ err = "none"
    /\ changed = FALSE
    /\ call = <<>>
    /\ ret = [file |-> NoFile, app |-> "idle", script |-> "idle", shown |-> 0]

\* if last_notif_file.exists(): last_date = f.read().strip();
\* if last_date == today: already shown
already_shown(file) == file # NoFile /\ strip(file) = today_str

ReminderStep(op) ==
    /\ lastOp' = op
    /\ err' = "none"
    /\ changed' = FALSE
    /\ UNCHANGED <<store, today, call>>

\* _show_daily_reminder up to its return or to the open(..., 'w').
AppCheck ==
    /\ ret.app = "idle"
    /\ ret' = [ret EXCEPT !.app = IF already_shown(ret.file) THEN "idle" ELSE "write"]
    /\ ReminderStep("app_check")

\* with open(last_notif_file, 'w') as f: f.write(today)
AppWrite ==
    /\ ret.app = "write"
    /\ ret' = [ret EXCEPT !.file = today_str, !.app = "show"]
    /\ ReminderStep("app_write")

\* self.tray_icon.showMessage(...) or QMessageBox.information(...)
AppShow ==
    /\ ret.app = "show"
    /\ ret' = [ret EXCEPT !.shown = @ + 1, !.app = "idle"]
    /\ ReminderStep("app_show")

\* check_already_shown() up to its return True or to the open(..., 'w').
ScriptCheck ==
    /\ ret.script = "idle"
    /\ ret' = [ret EXCEPT !.script = IF already_shown(ret.file) THEN "idle" ELSE "write"]
    /\ ReminderStep("script_check")

ScriptWrite ==
    /\ ret.script = "write"
    /\ ret' = [ret EXCEPT !.file = today_str, !.script = "show"]
    /\ ReminderStep("script_write")

\* show_notification()
ScriptShow ==
    /\ ret.script = "show"
    /\ ret' = [ret EXCEPT !.shown = @ + 1, !.script = "idle"]
    /\ ReminderStep("script_show")

\* Midnight, with no check under way.
ReminderDayChange ==
    /\ today # WindowEnd
    /\ ret.app = "idle" /\ ret.script = "idle"
    /\ today' = NextDate(today)
    /\ ret' = [ret EXCEPT !.shown = 0]
    /\ lastOp' = "day_change"
    /\ err' = "none"
    /\ changed' = FALSE
    /\ UNCHANGED <<store, call>>

ReminderNext ==
    \/ AppCheck
    \/ AppWrite
    \/ AppShow
    \/ ScriptCheck
    \/ ScriptWrite
    \/ ScriptShow
    \/ ReminderDayChange

SpecReminder == ReminderInit /\ [][ReminderNext]_vars

(* -------------------------- the Pomodoro timer ------------------------- *)
\* ret holds the TimerTab object and the table pomodoro_sessions:
\*   is_running, is_work_session, time_remaining (seconds), work_duration,
\*   break_duration (minutes), sessions_completed: the object's fields;
\*   pomodoro_sessions: the session_type of the table's rows, oldest first;
\*   work_finished: the work countdowns that reached zero since the tab was built;
\*   logged_before: the 'work' rows the table held when the tab was built.
MaxSessions == 2

SecondsPerMinute == 60

DefaultWorkDuration == 25

DefaultBreakDuration == 5

\* The values chosen in the spin boxes (work_spin 1..60, break_spin 1..30).
DurationInputs == {1}

WorkRows(log) == Len(SelectSeq(log, LAMBDA s : s = "work"))

\* TimerTab.__init__ over the table as it stands.
timer_tab(log) ==
    [is_running |-> FALSE,
     is_work_session |-> TRUE,
     time_remaining |-> DefaultWorkDuration * SecondsPerMinute,
     work_duration |-> DefaultWorkDuration,
     break_duration |-> DefaultBreakDuration,
     sessions_completed |-> 0,
     pomodoro_sessions |-> log,
     work_finished |-> 0,
     logged_before |-> WorkRows(log)]

log_pomodoro_session(t, session_type) ==
    [t EXCEPT !.pomodoro_sessions = Append(@, session_type)]

timer_finished_counting_breaks(t) ==
    LET stopped == [t EXCEPT !.is_running = FALSE]
    IN IF t.is_work_session
       THEN [log_pomodoro_session(stopped, "work") EXCEPT
                !.sessions_completed = @ + 1,
                !.is_work_session = FALSE,
                !.time_remaining = t.break_duration * SecondsPerMinute]
       ELSE [log_pomodoro_session(stopped, "break") EXCEPT
                !.sessions_completed = @ + 1,
                !.is_work_session = TRUE,
                !.time_remaining = t.work_duration * SecondsPerMinute]

timer_finished(t) ==
    LET stopped == [t EXCEPT !.is_running = FALSE]
    IN IF t.is_work_session
       THEN [log_pomodoro_session(stopped, "work") EXCEPT
                !.sessions_completed = @ + 1,
                !.is_work_session = FALSE,
                !.time_remaining = t.break_duration * SecondsPerMinute]
       ELSE [log_pomodoro_session(stopped, "break") EXCEPT
                !.is_work_session = TRUE,
                !.time_remaining = t.work_duration * SecondsPerMinute]

tick(t) ==
    LET counted == [t EXCEPT !.time_remaining = @ - 1]
    IN IF counted.time_remaining <= 0 THEN timer_finished(counted) ELSE counted

toggle_timer(t) == [t EXCEPT !.is_running = ~@]

reset_timer(t) ==
    [t EXCEPT !.is_running = FALSE,
              !.time_remaining = IF t.is_work_session
                                 THEN t.work_duration * SecondsPerMinute
                                 ELSE t.break_duration * SecondsPerMinute]

skip_session(t) ==
    IF t.is_work_session
    THEN [t EXCEPT !.is_running = FALSE,
                   !.is_work_session = FALSE,
                   !.time_remaining = t.break_duration * SecondsPerMinute]
    ELSE [t EXCEPT !.is_running = FALSE,
                   !.is_work_session = TRUE,
                   !.time_remaining = t.work_duration * SecondsPerMinute]

update_work_duration(t, value) ==
    IF t.is_work_session /\ ~t.is_running
    THEN [t EXCEPT !.work_duration = value, !.time_remaining = value * SecondsPerMinute]
    ELSE [t EXCEPT !.work_duration = value]

update_break_duration(t, value) ==
    IF ~t.is_work_session /\ ~t.is_running
    THEN [t EXCEPT !.break_duration = value, !.time_remaining = value * SecondsPerMinute]
    ELSE [t EXCEPT !.break_duration = value]

TimerInit ==
    /\ habits = {}
    /\ habit_logs = EmptyBag
    /\ notes = {}
    /\ nextHabitId = 1
    /\ nextNoteId = 1
    /\ today = WindowStart
    /\ lastOp = "init"
    /\ err = "none"
    /\ changed = FALSE
    /\ call = <<>>
    /\ ret = timer_tab(<<>>)

TimerStep(op, args) ==
    /\ lastOp' = op
    /\ call' = args
    /\ err' = "none"
    /\ UNCHANGED <<store, today>>

\* The QTimer's timeout, once a second while the timer runs. The countdown
\* that would add a row beyond MaxSessions is not taken.
Tick ==
    /\ ret.is_running
    /\ ret.time_remaining > 1 \/ Len(ret.pomodoro_sessions) < MaxSessions
    /\ LET after == tick(ret)
           reached_zero == ret.time_remaining - 1 <= 0
       IN /\ ret' = IF reached_zero /\ ret.is_work_session
                    THEN [after EXCEPT !.work_finished = @ + 1]
                    ELSE after
          /\ changed' = reached_zero
          /\ TimerStep("tick", <<ret.is_work_session>>)

ToggleTimer ==
    /\ ret' = toggle_timer(ret)
    /\ changed' = FALSE
    /\ TimerStep("toggle_timer", <<>>)

ResetTimer ==
    /\ ret' = reset_timer(ret)
    /\ changed' = FALSE
    /\ TimerStep("reset_timer", <<>>)

SkipSession ==
    /\ ret' = skip_session(ret)
    /\ changed' = FALSE
    /\ TimerStep("skip_session", <<>>)

UpdateWorkDuration ==
    \E value \in DurationInputs :
        /\ value # ret.work_duration
        /\ ret' = update_work_duration(ret, value)
        /\ changed' = FALSE
        /\ TimerStep("update_work_duration", <<value>>)

UpdateBreakDuration ==
    \E value \in DurationInputs :
        /\ value # ret.break_duration
        /\ ret' = update_break_duration(ret, value)
        /\ changed' = FALSE
        /\ TimerStep("update_break_duration", <<value>>)

\* The application closed and started again: a new TimerTab over the same table.
TimerRestart ==
    /\ ret' = timer_tab(ret.pomodoro_sessions)
    /\ changed' = FALSE
    /\ TimerStep("init", <<>>)

TimerNext ==
    \/ Tick
    \/ ToggleTimer
    \/ ResetTimer
    \/ SkipSession
    \/ UpdateWorkDuration
    \/ UpdateBreakDuration
    \/ TimerRestart

SpecTimer == TimerInit /\ [][TimerNext]_vars

(* ----------------------- claims about the store ----------------------- *)
IsDone(logs, hid, day) == Copies(logs, hid, day) > 0

UniqueHabitDay == \A r \in DOMAIN habit_logs : habit_logs[r] = 1

MarkDoneIdempotent ==
    \A hid \in HabitIds, dayArg \in StoreDayInputs :
        (/\ lastOp' = "mark_done"
         /\ mark_done(hid, dayArg)
         /\ IsDone(habit_logs, hid, DayOrToday(dayArg)))
            => /\ habit_logs' = habit_logs
               /\ Copies(habit_logs', hid, DayOrToday(dayArg)) = 1

\* C1: after any sequence of create_habit, delete_habit, mark_done and
\* unmark_done calls habit_logs holds at most one row per (habit, day), and a
\* mark_done of a pair that is already recorded leaves habit_logs as it was,
\* with exactly one row for the pair.
C1_OneRecordPerHabitDay == [](UniqueHabitDay) /\ [][MarkDoneIdempotent]_vars

\* C1 witness: a mark_done that found its row present and added nothing.
C1_Witness ==
    /\ lastOp = "mark_done" /\ err = "none" /\ ~changed
    /\ \E r \in DOMAIN habit_logs : habit_logs[r] = 1

UnmarkDoneFrame ==
    \A hid \in HabitIds, dayArg \in StoreDayInputs :
        (lastOp' = "unmark_done" /\ unmark_done(hid, dayArg)) =>
            LET day == DayOrToday(dayArg) IN
            /\ ~IsDone(habit_logs', hid, day)
            /\ \A r \in DOMAIN habit_logs \cup DOMAIN habit_logs' :
                   (r.habit_id # hid \/ r.day # day)
                       => Copies(habit_logs', r.habit_id, r.day)
                              = Copies(habit_logs, r.habit_id, r.day)
            /\ (~IsDone(habit_logs, hid, day) => habit_logs' = habit_logs)
            /\ habits' = habits
            /\ notes' = notes

\* C4: unmark_done(h, d) removes the row of (h, d) when there is one and changes
\* nothing when there is none; the rows of every other (habit, day) pair, the
\* habits and the notes are as before.
C4_UnmarkDoneFrame == [][UnmarkDoneFrame]_vars

\* C4 witness: an unmark_done that removed a row while another row of the same
\* habit, a row of another habit and a note were in the store.
C4_Witness ==
    /\ lastOp = "unmark_done" /\ changed
    /\ notes # {}
    /\ \E r1, r2 \in DOMAIN habit_logs : r1.habit_id # r2.habit_id
    /\ \E r \in DOMAIN habit_logs, d \in WindowDays :
           d # r.day /\ ~IsDone(habit_logs, r.habit_id, d)

NoOrphans ==
    /\ \A r \in DOMAIN habit_logs : HabitExists(r.habit_id)
    /\ \A n \in notes : HabitExists(n.habit_id)

DeleteHabitCascade ==
    \A hid \in HabitIds :
        (lastOp' = "delete_habit" /\ delete_habit(hid)) =>
            /\ habits' = {h \in habits : h.id # hid}
            /\ \A r \in DOMAIN habit_logs :
                   Copies(habit_logs', r.habit_id, r.day)
                       = (IF r.habit_id = hid THEN 0 ELSE habit_logs[r])
            /\ DOMAIN habit_logs' \subseteq DOMAIN habit_logs
            /\ notes' = {n \in notes : n.habit_id # hid}
            /\ (~HabitExists(hid) => store' = store)

DeleteHabitNeverRaises == lastOp = "delete_habit" => err = "none"

\* C5: delete_habit(id) removes the habit, its habit_logs rows and its notes and
\* nothing else, so no row of habit_logs or notes ever refers to a habit that is
\* not in the store; for an id that is not there it changes nothing and raises
\* nothing.
C5_DeleteHabitCascades ==
    /\ [](NoOrphans /\ DeleteHabitNeverRaises)
    /\ [][DeleteHabitCascade]_vars

\* C5 witness: a delete_habit took a habit away while another habit with a log
\* row and a note stays.
C5_Witness ==
    /\ lastOp = "delete_habit" /\ changed
    /\ nextHabitId > Cardinality(habits) + 1
    /\ \E h \in habits :
           /\ \E r \in DOMAIN habit_logs : r.habit_id = h.id
           /\ \E n \in notes : n.habit_id = h.id

(* ---------------------- claims about the streak ----------------------- *)
\* Habit hid has a row for date d (a date, compared as such).
DoneOn(hid, d) == \E r \in DOMAIN habit_logs : r.habit_id = hid /\ fromisoformat(r.day) = d

\* Marked on today and the k - 1 days before it, and not on today - k.
RunOf(hid, k) ==
    /\ \A i \in 0..(k - 1) : DoneOn(hid, AddDays(today, -i))
    /\ ~DoneOn(hid, AddDays(today, -k))

RunLengths == 1..Cardinality(WindowDates)

\* C2: a habit marked on today and on every day back to today-(k-1) and not on
\* today-k (k >= 1) has current_streak k, whatever other days are marked.
C2_StreakIsRunEndingToday ==
    \A h \in habits : \A k \in RunLengths :
        RunOf(h.id, k) => current_streak(h.id) = k

\* C2 witness: a run of one day ending today, yesterday missed and the day
\* before it marked, beside another habit marked today.
C2_Witness ==
    \E h, g \in habits :
        /\ h # g
        /\ RunOf(h.id, 1)
        /\ DoneOn(h.id, AddDays(today, -2))
        /\ DoneOn(g.id, today)

\* C2 scenario: marked on D, D-1, D-2 and missed on D-3 gives 3.
C2_ScenarioReached ==
    \E h \in habits : RunOf(h.id, 3) /\ current_streak(h.id) = 3

\* C3: current_streak is 0 whenever the habit has no row for today, whichever
\* other days are marked, and so for a habit never marked.
C3_NoStreakWithoutToday ==
    \A h \in habits : ~DoneOn(h.id, today) => current_streak(h.id) = 0

\* C3 witness: today is not marked while yesterday and tomorrow are, and another
\* habit has no row at all.
C3_Witness ==
    \E h, g \in habits :
        /\ ~DoneOn(h.id, today)
        /\ DoneOn(h.id, PrevDate(today))
        /\ DoneOn(h.id, NextDate(today))
        /\ \A r \in DOMAIN habit_logs : r.habit_id # g.id

(* -------------------- claims about the best streak -------------------- *)
Max(S) == CHOOSE x \in S : \A y \in S : y <= x

\* The greatest current_streak among the candidates, 0 without candidates.
MaxCurrentStreak(cands) == Max({0} \cup {current_streak(h.id) : h \in cands})

\* The first habit of the sequence whose current_streak is m.
FirstWithStreak(rows, m) ==
    rows[CHOOSE i \in 1..Len(rows) :
            /\ current_streak(rows[i].id) = m
            /\ \A j \in 1..(i - 1) : current_streak(rows[j].id) # m]

\* C6: the best streak is the greatest current_streak of the candidates, with a
\* habit that attains it, and of several that attain it the first in the order
\* the candidates are iterated in: for get_best_streak the order of the fetched
\* rows, for the all-time report the list of list_habits (name ascending).
C6_BestStreakFirstMaxWins ==
    LET m == MaxCurrentStreak(Counted) IN
    m >= 1 =>
        /\ \A rows \in BestStreakRowOrders :
               /\ get_best_streak(rows).streak = m
               /\ get_best_streak(rows).name = FirstWithStreak(rows, m).name
        /\ all_time_best.streak = m
        /\ all_time_best.name = FirstWithStreak(ReportHabits, m).name

\* C6 witness: two habits tie on a streak of at least 1 and the rowid order and
\* the name order of the rows differ.
C6_Witness ==
    \E h, g \in Counted :
        /\ h.id < g.id /\ TextLess(g.name, h.name)
        /\ current_streak(h.id) >= 1
        /\ current_streak(h.id) = current_streak(g.id)

\* C6 scenario: one habit with a longer streak than the other.
C6_ScenarioReached ==
    \E h, g \in Counted :
        /\ current_streak(h.id) = 2 /\ current_streak(g.id) = 1
        /\ \A rows \in BestStreakRowOrders :
               get_best_streak(rows) = [name |-> h.name, streak |-> 2]

\* C7: without candidates, or with every candidate's current_streak 0, the best
\* streak is (none, 0): get_best_streak gives ("None", 0), which the Stats tab
\* shows as "No active streaks", the report loop gives ("", 0); no habit with
\* streak 0 is ever named.
C7_NoBestStreakWithoutStreak ==
    /\ (\A h \in Counted : current_streak(h.id) = 0) =>
           /\ \A rows \in BestStreakRowOrders :
                  /\ get_best_streak(rows) = [name |-> NoneName, streak |-> 0]
                  /\ streak_subtitle(get_best_streak(rows)) = "No active streaks"
           /\ all_time_best = [name |-> <<>>, streak |-> 0]
    /\ \A rows \in BestStreakRowOrders :
           \A h \in Counted :
               get_best_streak(rows).name = h.name => current_streak(h.id) > 0
    /\ \A h \in Counted : all_time_best.name = h.name => current_streak(h.id) > 0

\* C7 witness: two habits with rows (marked yesterday or tomorrow), none of them
\* marked today.
C7_Witness ==
    /\ Cardinality(Counted) >= 2
    /\ \A h \in Counted :
           /\ current_streak(h.id) = 0
           /\ \E r \in DOMAIN habit_logs : r.habit_id = h.id

(* ------------------- claims about the range queries ------------------- *)
\* The range ends callers pass: days of the window and the two fixed lower ends.
RangeEnds == WindowDays \cup {FirstIsoDay, isoformat(<<2000, 1, 1>>)}

\* The dates on which the habit has a row.
DoneDates(hid) ==
    {fromisoformat(r.day) : r \in {x \in DOMAIN habit_logs : x.habit_id = hid}}

\* C8: get_done_days_in_range(h, start, end) is exactly the days d of h's rows
\* with start <= d <= end, each once, ascending; over (d, d) it has one element
\* if d is marked for h and none otherwise; rows of other habits do not count.
C8_DoneDaysInRange ==
    \A hid \in HabitIds :
        LET done == DoneDates(hid) IN
        \A s \in RangeEnds : \A e \in RangeEnds :
        LET got == get_done_days_in_range(hid, s, e)
            start == fromisoformat(s)
            end == fromisoformat(e)
        IN
        /\ Range(got) = {isoformat(d) :
               d \in {x \in done : DateLeq(start, x) /\ DateLeq(x, end)}}
        /\ \A i \in 1..Len(got) : \A j \in 1..Len(got) :
               i < j => DateLess(fromisoformat(got[i]), fromisoformat(got[j]))
        /\ (s = e => Len(got) = (IF is_done_on_day(hid, s) THEN 1 ELSE 0))

\* C8 witness: a habit with a row before the range and one on its first day,
\* and another habit with the only row on the last day of the range.
C8_Witness ==
    \E h, g \in habits :
        /\ Len(get_done_days_in_range(h.id, isoformat(<<2024, 2, 29>>),
                                      isoformat(<<2024, 3, 1>>))) = 1
        /\ Len(get_done_days_in_range(g.id, isoformat(<<2024, 2, 29>>),
                                      isoformat(<<2024, 3, 1>>))) = 1
        /\ DoneOn(h.id, <<2024, 2, 28>>)
        /\ DoneOn(h.id, <<2024, 2, 29>>)
        /\ DoneOn(g.id, <<2024, 3, 1>>)

\* The day counts asked for: today alone, part of the window, and the Stats
\* tab's "Last 7 days".
DayCounts == {1, 2, 7}

\* Habit hid has no row on any of the last n days.
NothingDoneInLast(hid, n) ==
    \A i \in 0..(n - 1) : ~DoneOn(hid, AddDays(today, -i))

\* C9: the per-habit result has exactly one entry for every supplied habit, and
\* the entry of a habit without a row in the range is (habit, 0, 0.0): for
\* per_habit_last_n_days over list_habits(), for the Stats tab's table over the
\* habits it counts.
C9_EveryHabitHasOneEntry ==
    \A n \in DayCounts :
        LET out == per_habit_last_n_days(n)
            tab == stats_table(n)
        IN
        /\ Len(out) = Cardinality(habits)
        /\ \A h \in habits :
               /\ Cardinality({i \in 1..Len(out) : out[i].habit = h}) = 1
               /\ NothingDoneInLast(h.id, n) =>
                      \E i \in 1..Len(out) :
                          out[i] = [habit |-> h, done |-> 0, rate |-> <<0, n>>]
        /\ Len(tab) = Cardinality(Counted)
        /\ \A h \in Counted :
               /\ Cardinality({i \in 1..Len(tab) : tab[i].name = h.name}) = 1
               /\ NothingDoneInLast(h.id, n) =>
                      \E i \in 1..Len(tab) :
                          tab[i] = [name |-> h.name, done |-> 0, rate |-> <<0, n>>]

\* C9 witness: of two habits one has rows in the last two days and the other has
\* a row, but none in those days.
C9_Witness ==
    \E h, g \in Counted :
        /\ ~NothingDoneInLast(h.id, 2)
        /\ NothingDoneInLast(g.id, 2)
        /\ \E r \in DOMAIN habit_logs : r.habit_id = g.id

\* The entries (habit, dc, rate) as (name, dc, rate).
ByName(out) ==
    [i \in 1..Len(out) |->
        [name |-> out[i].habit.name, done |-> out[i].done, rate |-> out[i].rate]]

\* Sorted by rate descending, and by name ascending without case among equal
\* rates.
SortedByRateThenName(seq) ==
    \A i \in 1..Len(seq) : \A j \in 1..Len(seq) :
        i < j =>
            /\ ~RateLess(seq[i].rate, seq[j].rate)
            /\ RateEq(seq[i].rate, seq[j].rate)
                   => ~TextLess(lower(seq[j].name), lower(seq[i].name))

ZeroAfterPositive(seq) ==
    \A i \in 1..Len(seq) : \A j \in 1..Len(seq) :
        (seq[i].done = 0 /\ seq[j].done > 0) => j < i

SortedByNameNoCase(seq) ==
    \A i \in 1..Len(seq) : \A j \in 1..Len(seq) :
        i < j => ~TextLess(lower(seq[j].name), lower(seq[i].name))

UserHabits == {h \in habits : h.name # General}

\* The habit_logs rows of the user's habits whose day is a date of [first, last].
UserRecords(first, last) ==
    {r \in DOMAIN habit_logs :
        /\ \E h \in UserHabits : h.id = r.habit_id
        /\ DateLeq(first, fromisoformat(r.day))
        /\ DateLeq(fromisoformat(r.day), last)}

\* The window of the last n days, as dates.
FirstOfLast(n) == AddDays(today, -(n - 1))

\* No entry of a sequence of records carries the reserved name.
NoGeneralLine(lines) == \A i \in 1..Len(lines) : lines[i].name # General

\* What the Stats, Milestones and Reports tabs show leaves the reserved habit out.
TabsExcludeGeneral ==
    /\ \A n \in DayCounts :
           LET recs == UserRecords(FirstOfLast(n), today) IN
           /\ stats_overall(n).habits = Cardinality(UserHabits)
           /\ stats_overall(n).total = Cardinality(UserHabits) * n
           /\ stats_overall(n).done = Cardinality(recs)
           /\ NoGeneralLine(stats_table(n))
           /\ \A d \in DOMAIN daily_completion_counts(n) :
                  daily_completion_counts(n)[d]
                      = Cardinality({r \in recs : r.day = d})
           /\ \A w \in DOMAIN get_completion_by_weekday(days_back(n)[1], today_str) :
                  get_completion_by_weekday(days_back(n)[1], today_str)[w]
                      = Cardinality({r \in recs :
                            weekday_names[weekday(fromisoformat(r.day)) + 1] = w})
    /\ \A rows \in BestStreakRowOrders : get_best_streak(rows).name # General
    /\ all_time_best.name # General
    /\ milestones_refresh.habits = Cardinality(UserHabits)
    /\ milestones_refresh.habits > 0 =>
           milestones_refresh.total_completions
               = Cardinality(UserRecords(<<2000, 1, 1>>, today))
    /\ weekly_report.habits = Cardinality(UserHabits)
    /\ NoGeneralLine(weekly_report.lines)
    /\ NoGeneralLine(monthly_report.lines)
    /\ NoGeneralLine(all_time_report.lines)

\* What models.stats_for_range and models.per_habit_last_n_days give leaves the
\* reserved habit out.
ModelStatsExcludeGeneral ==
    \A n \in DayCounts :
        /\ stats_for_range(n).habits = Cardinality(UserHabits)
        /\ stats_for_range(n).total = Cardinality(UserHabits) * n
        /\ stats_for_range(n).done = Cardinality(UserRecords(FirstOfLast(n), today))
        /\ NoGeneralLine(ByName(per_habit_last_n_days(n)))

\* C11: the habit named "General" is left out of every statistic, milestone and
\* report: it is not counted in the number of habits or of slots, its rows are
\* in no count of completions, weekday bucket or daily count, and it is no
\* per-habit entry and never the owner of the best streak.
C11_GeneralExcluded == TabsExcludeGeneral /\ ModelStatsExcludeGeneral

\* The reserved habit exists, is marked today, and a user's habit exists too.
C11_GeneralMarked ==
    /\ \E h \in habits : h.name = General /\ DoneOn(h.id, today)
    /\ UserHabits # {}

(* ------------------- claims about the overall statistics -------------- *)
\* The habit_logs rows of the habits of hs whose day is a date of [first, last].
RecordsOf(hs, first, last) ==
    {r \in DOMAIN habit_logs :
        /\ \E h \in hs : h.id = r.habit_id
        /\ DateLeq(first, fromisoformat(r.day))
        /\ DateLeq(fromisoformat(r.day), last)}

\* An overall result st over the habits hs and the last n days.
IsOverallStats(st, hs, n) ==
    /\ st.habits = Cardinality(hs)
    /\ st.done = Cardinality(RecordsOf(hs, FirstOfLast(n), today))
    /\ st.total = Cardinality(hs) * n
    /\ IF st.total = 0 THEN st.rate[1] = 0 /\ st.rate[2] # 0
       ELSE RateEq(st.rate, <<st.done, st.total>>) /\ st.rate[2] # 0
    /\ hs = {} => st.done = 0 /\ st.total = 0 /\ st.rate = ZeroRate

\* The overall statistics of the last n days have totalSlots = habitCount
\* * n and rate = doneCount / totalSlots (0 when totalSlots is 0), doneCount
\* being the number of rows of the habits counted whose day lies in the window;
\* without habits they are 0, 0, 0 and 0.0. The head of the Stats tab counts the
\* user's habits, models.stats_for_range the habits of list_habits().
OverallStatsHold ==
    \A n \in DayCounts :
        LET tab == stats_overall(n)
            all == stats_for_range(n)
        IN
        /\ IsOverallStats(tab, UserHabits, n)
        /\ tab.days = n
        /\ IsOverallStats(all, habits, n)
        /\ all.days = n

\* C12: in every reachable state the overall statistics of the last n days have
\* totalSlots = habitCount * n and rate = doneCount / totalSlots (0 when
\* totalSlots is 0), doneCount being the number of rows of the habits counted
\* whose day lies in the window; without habits they are 0, 0, 0 and 0.0.
C12_OverallStats == [](OverallStatsHold)

\* C12 witness: two habits of the user and the window of today alone, one row inside
\* it, one before it and one after it.
C12_Witness ==
    /\ today = <<2024, 2, 29>>
    /\ stats_overall(1).total = 2
    /\ stats_overall(1).done = 1
    /\ \E r \in DOMAIN habit_logs : fromisoformat(r.day) = <<2024, 2, 28>>
    /\ \E r \in DOMAIN habit_logs : fromisoformat(r.day) = <<2024, 3, 1>>

(* ------------------------ claims about the rates ---------------------- *)
\* A rate dc / n that lies in [0, 1].
InUnitInterval(rate) == rate[2] > 0 /\ 0 <= rate[1] /\ rate[1] <= rate[2]

AllInUnitInterval(lines) == \A i \in 1..Len(lines) : InUnitInterval(lines[i].rate)

\* The rates over a window of days: overall, per habit, weekly and monthly.
WindowRatesInUnitInterval ==
    /\ \A n \in DayCounts :
           /\ InUnitInterval(stats_overall(n).rate)
           /\ InUnitInterval(stats_for_range(n).rate)
           /\ AllInUnitInterval(stats_table(n))
           /\ AllInUnitInterval(per_habit_last_n_days(n))
    /\ AllInUnitInterval(weekly_report.lines)
    /\ weekly_report.habits > 0 => InUnitInterval(weekly_report.overall_rate)
    /\ AllInUnitInterval(monthly_report.lines)
    /\ monthly_report.habits > 0 => InUnitInterval(monthly_report.overall_rate)

\* Each habit's all-time rate, doneCount / daysSinceCreation.
AllTimeRatesInUnitInterval == AllInUnitInterval(all_time_report.lines)

\* C13: every completion rate lies in [0, 1] in every reachable state of the
\* store, days before a habit's creation and after today marked included: the
\* overall rate, each per-habit rate of a range, each rate of the weekly and
\* the monthly report and each habit's all-time rate.
C13_RatesInUnitInterval == WindowRatesInUnitInterval /\ AllTimeRatesInUnitInterval

\* A habit has a row for a day before its creation and one for a day after today.
C13_MarkedOutsideLifetime ==
    \E h \in habits :
        /\ \E r \in DOMAIN habit_logs :
               /\ r.habit_id = h.id
               /\ DateLess(fromisoformat(r.day), fromisoformat(FirstWord(h.created_at)))
        /\ \E r \in DOMAIN habit_logs :
               r.habit_id = h.id /\ DateLess(today, fromisoformat(r.day))

(* ------------------- claims about the weekday buckets ----------------- *)
\* 2024-02-26 was a Monday.
KnownMonday == <<2024, 2, 26>>

\* The days from the date a on to the date b, b not before a.
RECURSIVE DaysFromTo(_, _)
DaysFromTo(a, b) == IF a = b THEN 0 ELSE 1 + DaysFromTo(NextDate(a), b)

WeekdayKeys == <<"Mon", "Tue", "Wed", "Thu", "Fri", "Sat", "Sun">>

\* The weekday of a date on or after KnownMonday, counted from that Monday.
WeekdayKeyOf(d) == WeekdayKeys[(DaysFromTo(KnownMonday, d) % 7) + 1]

\* The first days StatsTab.refresh passes: a day of the window, or a day long
\* before it.
WeekdayRangeStarts == WindowDays \cup {isoformat(<<2000, 1, 1>>)}

\* get_completion_by_weekday(start, end) has exactly the seven keys Mon to
\* Sun; the bucket of weekday w is the number of rows of the habits other than
\* General whose day lies in [start, end] and falls on w, so the seven buckets
\* sum to the number of such rows.
WeekdayBucketsHold ==
    \A s \in WeekdayRangeStarts : \A e \in WindowDays :
        LET got == get_completion_by_weekday(s, e)
            recs == UserRecords(fromisoformat(s), fromisoformat(e))
            counts == <<got["Mon"], got["Tue"], got["Wed"], got["Thu"], got["Fri"],
                        got["Sat"], got["Sun"]>>
        IN
        /\ DOMAIN got = Range(WeekdayKeys)
        /\ \A i \in 1..7 :
               counts[i] = Cardinality({r \in recs :
                               WeekdayKeyOf(fromisoformat(r.day)) = WeekdayKeys[i]})
        /\ counts[1] + counts[2] + counts[3] + counts[4] + counts[5] + counts[6]
               + counts[7] = Cardinality(recs)

\* C14: in every reachable state get_completion_by_weekday(start, end) has
\* exactly the seven keys Mon to Sun, the bucket of a weekday is the number of
\* rows of the habits other than General whose day lies in [start, end] and
\* falls on it, and the seven buckets sum to the number of such rows.
C14_WeekdayBuckets == [](WeekdayBucketsHold)

\* C14 witness: over Thursday 2024-02-29 and Friday 2024-03-01 one row of a
\* user's habit on each day, and a row of General on the Friday.
C14_Witness ==
    LET got == get_completion_by_weekday(isoformat(<<2024, 2, 29>>),
                                         isoformat(<<2024, 3, 1>>))
    IN /\ got["Thu"] = 1
       /\ got["Fri"] = 1
       /\ \E h \in habits : h.name = General /\ DoneOn(h.id, <<2024, 3, 1>>)

(* ---------------------- claims about the day windows ------------------ *)
\* C15: for n >= 1, days_back(n) has exactly n elements, each one calendar day
\* after the one before it (so strictly ascending), the first today - (n - 1)
\* and the last today.
C15_DaysBack ==
    (lastOp = "days_back" /\ call[1] >= 1) =>
        LET n == call[1] IN
        /\ err = "none"
        /\ Len(ret) = n
        /\ \A i \in 1..(n - 1) :
               /\ NextDate(fromisoformat(ret[i])) = fromisoformat(ret[i + 1])
               /\ TextLess(ret[i], ret[i + 1])
        /\ DaysBetween(today, fromisoformat(ret[1])) = n - 1
        /\ ret[n] = isoformat(today)

\* C15 witness: the 90 days up to 2024-03-01, over the leap day and the turn of
\* the year.
C15_Witness ==
    /\ lastOp = "days_back"
    /\ call = <<90>>
    /\ today = <<2024, 3, 1>>
    /\ ret[1] = isoformat(<<2023, 12, 3>>)

\* C16: days_back(n) with n <= 0 is rejected with a validation error and returns
\* no sequence, and stats_for_range and per_habit_last_n_days reject a window
\* that is not positive the same way.
C16_NonPositiveWindowRejected ==
    (lastOp \in {"days_back", "stats_for_range", "per_habit_last_n_days"} /\ call[1] <= 0)
        => err = "ValueError"

\* A window that is not positive was asked of a store with a habit.
C16_AskedWithHabits ==
    /\ lastOp = "stats_for_range"
    /\ call[1] <= 0
    /\ habits # {}

(* ----------------------- claims about the milestones ------------------ *)
\* The ladder as declared: the counter of each entry and its target.
LadderKinds == <<1, 1, 1, 1, 1, 2, 2, 2, 2, 3, 3, 3>>

LadderTargets == <<1, 10, 50, 100, 500, 7, 30, 90, 365, 5, 10, 20>>

LadderTitles ==
    << "First Step", "Getting Started", "Building Momentum", "Habit Master", "Legendary",
       "Week Warrior", "Month Master", "Quarter Champion", "Year Legend",
       "Habit Collector", "Routine Builder", "Lifestyle Designer" >>

\* C17: the evaluation yields the twelve entries of the ladder in the declared
\* order, each with the counter of its kind as progress and earned = (progress
\* >= target); an entry not earned has target - progress > 0 left; with 10
\* completions First Step and Getting Started are earned and Building Momentum
\* is not, with 40 left.
C17_MilestoneLadder ==
    lastOp = "milestones" =>
        /\ Len(ret.cards) = 12
        /\ \A i \in 1..Len(ret.cards) :
               LET c == ret.cards[i] IN
               /\ c.title = LadderTitles[i]
               /\ c.target = LadderTargets[i]
               /\ c.progress = call[LadderKinds[i]]
               /\ c.earned = (call[LadderKinds[i]] >= LadderTargets[i])
               /\ ~c.earned =>
                      /\ c.status = <<"more to go", LadderTargets[i] - call[LadderKinds[i]]>>
                      /\ c.status[2] > 0
        /\ call[1] = 10 =>
               /\ ret.cards[1].earned
               /\ ret.cards[2].earned
               /\ ~ret.cards[3].earned
               /\ ret.cards[3].status = <<"more to go", 40>>

\* C17 witness: 10 completions, with a streak of 7 and 5 habits.
C17_Witness ==
    /\ lastOp = "milestones"
    /\ call = <<10, 7, 5>>
    /\ ret.earned_count = 4

\* The number of cards that are earned.
EarnedCards(r) == Cardinality({i \in 1..Len(r.cards) : r.cards[i].earned})

\* Within one evaluation: an earned entry has every entry of the same counter
\* and a lower target earned, and the number earned is the number of earned
\* cards.
EarnedDownwards ==
    lastOp = "milestones" =>
        /\ \A i \in 1..Len(ret.cards) : \A j \in 1..Len(ret.cards) :
               (/\ LadderKinds[i] = LadderKinds[j]
                /\ ret.cards[j].target <= ret.cards[i].target
                /\ ret.cards[i].earned) => ret.cards[j].earned
        /\ ret.earned_count = EarnedCards(ret)

\* From one evaluation to the next: with no counter lower, no earned entry is
\* lost; with the same counters, the flags and the number earned are the same.
EarnedMonotone ==
    (/\ lastOp = "milestones" /\ lastOp' = "milestones"
     /\ \A k \in 1..3 : call'[k] >= call[k])
        => /\ \A i \in 1..Len(ret.cards) : ret.cards[i].earned => ret'.cards[i].earned
           /\ ret'.earned_count >= ret.earned_count
           /\ call' = call =>
                  /\ \A i \in 1..Len(ret.cards) :
                         ret'.cards[i].earned = ret.cards[i].earned
                  /\ ret'.earned_count = ret.earned_count

\* C18: earning is monotone and deterministic: raising a counter never un-earns
\* a milestone, an earned milestone has every lower target of its counter
\* earned, and evaluating again with the same counters gives the same flags and
\* the same number earned.
C18_EarnedMonotone == [](EarnedDownwards) /\ [][EarnedMonotone]_vars

\* C18 witness: an evaluation with the streak entries up to 90 days earned and
\* completions short of 500.
C18_Witness ==
    /\ lastOp = "milestones"
    /\ call = <<499, 364, 9>>
    /\ ret.earned_count = 8

(* ------------------------------- C19 ---------------------------------- *)
Padded(s) == s # <<>> /\ (s[1] = SPACE \/ s[Len(s)] = SPACE)

AllSpaces(s) == \A i \in 1..Len(s) : s[i] = SPACE

\* s without the spaces around it, found by position rather than by strip().
Trimmed(s) ==
    IF AllSpaces(s) THEN <<>>
    ELSE LET first == CHOOSE i \in 1..Len(s) :
                          s[i] # SPACE /\ \A j \in 1..(i - 1) : s[j] = SPACE
             last == CHOOSE i \in 1..Len(s) :
                         s[i] # SPACE /\ \A j \in (i + 1)..Len(s) : s[j] = SPACE
         IN SubSeq(s, first, last)

HabitNamesValid ==
    /\ \A h \in habits : h.name # <<>> /\ ~Padded(h.name)
    /\ \A g, h \in habits : g.name = h.name => g = h

CreateHabitRefusals ==
    lastOp' = "create_habit" =>
        LET name == call'[1] IN
        /\ AllSpaces(name) => err' = "ValueError" /\ store' = store
        /\ (~AllSpaces(name) /\ \E h \in habits : h.name = Trimmed(name))
               => err' = "IntegrityError" /\ store' = store
        /\ (~AllSpaces(name) /\ nextHabitId <= MaxHabitId
                /\ \A h \in habits : h.name # Trimmed(name))
               => /\ err' = "none"
                  /\ \E h \in habits' : h.name = Trimmed(name) /\ h \notin habits

\* C19: create_habit raises ValueError when the name is empty after trimming
\* and IntegrityError when a habit already has the trimmed name, and leaves the
\* store as it was in both cases; in every reachable state every stored name is
\* non-empty, has no space at either end, and belongs to one habit only.
C19_CreateHabitRefusals == [](HabitNamesValid) /\ [][CreateHabitRefusals]_vars

\* " a " refused as a duplicate of the stored "a", next to a second habit.
C19_Witness ==
    /\ lastOp = "create_habit"
    /\ err = "IntegrityError"
    /\ call = << <<SPACE, 97, SPACE>> >>
    /\ ~changed
    /\ Cardinality(habits) = 2

(* ------------------------------- C20 ---------------------------------- *)
NoteContentsValid ==
    \A n \in notes :
        /\ ~AllSpaces(n.content)
        /\ Len(n.content) >= 1
        /\ Len(n.content) <= MaxNoteLen

AddNoteRefusal ==
    (lastOp' = "add_note" /\ AllSpaces(call'[2]))
        => err' = "ValueError" /\ store' = store

\* C20: add_note raises ValueError when the content is empty after trimming and
\* stores nothing then; in every reachable state every stored note has a
\* content with a character other than a space and of at most 150 characters.
C20_NoteContents == [](NoteContentsValid) /\ [][AddNoteRefusal]_vars

\* A note of exactly 150 characters is stored, and an editor text cut to 150
\* spaces has just been refused.
C20_Witness ==
    /\ lastOp = "add_note"
    /\ err = "ValueError"
    /\ Len(call[2]) = MaxNoteLen
    /\ ~changed
    /\ \E n \in notes : Len(n.content) = MaxNoteLen

(* ------------------- claims about the list of habits ------------------ *)
ListsEveryHabitOnce ==
    /\ Range(list_habits) = habits
    /\ Len(list_habits) = Cardinality(habits)

\* C21: list_habits() returns every stored habit exactly once, in the ascending
\* order of the names compared without case, so that "a" does not come after
\* "B".
C21_ListHabitsByNameNoCase == ListsEveryHabitOnce /\ SortedByNameNoCase(list_habits)

(* ------------------- claims about habits that are gone ---------------- *)
\* The ids of habits that were created and deleted since.
DeletedIds == {hid \in HabitIds : hid < nextHabitId /\ ~HabitExists(hid)}

\* C22: current_streak of a habit id that is no longer in the store fails with
\* a not-found error and returns no streak value.
C22_StreakOfDeletedHabitFails ==
    \A hid \in DeletedIds : current_streak_raises(hid) = "NotFoundError"

\* What the code does instead: it returns 0 and raises nothing.
StreakOfDeletedHabitIsZero ==
    \A hid \in DeletedIds : current_streak_raises(hid) = "none" /\ current_streak(hid) = 0

(* ------------------- claims about the number earned ------------------- *)
\* C23: the number of earned milestones in the summary line, which
\* _count_earned_milestones computes, is the number of cards of the ladder
\* that are shown as earned, whatever the three counters are.
C23_EarnedCountIsEarnedCards ==
    lastOp = "milestones" => ret.earned_count = EarnedCards(ret)

\* C23 witness: 100 completions, a streak of 90 days and 4 habits: four
\* completion cards and three streak cards earned, no habit card.
C23_Witness ==
    /\ lastOp = "milestones"
    /\ call = <<100, 90, 4>>
    /\ ret.earned_count = 7
    /\ Len(ret.cards) = 12
    /\ ret.cards[8].earned /\ ~ret.cards[9].earned /\ ~ret.cards[10].earned

(* ------------------- claims about the lifetime counter ---------------- *)
\* The rows stored for the habits other than General, on whatever day.
StoredUserRecords ==
    BagCardinality([r \in {x \in DOMAIN habit_logs :
                              \E h \in UserHabits : h.id = x.habit_id}
                       |-> habit_logs[r]])

\* C24: with a habit to count, the total completions of the Milestones tab and
\* of the all-time report are the number of rows stored for the habits other
\* than General, rows on days after today included.
C24_LifetimeCountsEveryRecord ==
    UserHabits # {} =>
        /\ milestones_refresh.total_completions = StoredUserRecords
        /\ all_time_report.total_completions = StoredUserRecords

\* What the code counts: the rows whose day lies in "2000-01-01"..today.
LifetimeCountsUpToToday ==
    UserHabits # {} =>
        LET n == Cardinality(UserRecords(<<2000, 1, 1>>, today)) IN
        /\ milestones_refresh.total_completions = n
        /\ all_time_report.total_completions = n

(* ------------------- claims about the period reports ------------------ *)
\* The Monday of today's week, counted from a known Monday.
MondayOfThisWeek == AddDays(today, -(DaysFromTo(KnownMonday, today) % 7))

FirstOfThisMonth == <<today[1], today[2], 1>>

\* The rows of habit hid whose day is a date of [first, last].
RecordsOfHabit(hid, first, last) ==
    {r \in DOMAIN habit_logs :
        /\ r.habit_id = hid
        /\ DateLeq(first, fromisoformat(r.day))
        /\ DateLeq(fromisoformat(r.day), last)}

\* rp is the report of the period from first to today: a line for every habit
\* other than General with its rows of the period over the days of the period,
\* and the totals over the habits.
IsPeriodReport(rp, first) ==
    LET n == DaysFromTo(first, today) + 1 IN
    IF UserHabits = {} THEN rp.habits = 0
    ELSE /\ rp.habits = Cardinality(UserHabits)
         /\ Len(rp.lines) = Cardinality(UserHabits)
         /\ \A h \in UserHabits :
                \E i \in 1..Len(rp.lines) :
                    LET line == rp.lines[i] IN
                    /\ line.name = h.name
                    /\ line.count = Cardinality(RecordsOfHabit(h.id, first, today))
                    /\ line.rate[2] # 0
                    /\ RateEq(line.rate, <<line.count, n>>)
         /\ rp.total_completions = Cardinality(UserRecords(first, today))
         /\ rp.total_possible = Cardinality(UserHabits) * n

MonthlyReportOverItsDays == IsPeriodReport(monthly_report, FirstOfThisMonth)

\* C25: in the weekly report (Monday of this week to today) and the monthly
\* report (the first of this month to today) every habit other than General has
\* its number of rows in the period as doneCount and doneCount over the number
\* of days of the period as rate; totalDone is the sum of the doneCounts and
\* totalPossible the number of habits times the number of days of the period.
C25_PeriodReports ==
    /\ IsPeriodReport(weekly_report, MondayOfThisWeek)
    /\ MonthlyReportOverItsDays

(* ------------------- claims about the streak over midnight ------------ *)
\* The streak the habit had when the day last changed.
StreakYesterday(hid) == ret.yesterday[hid]

\* As stated: a streak of k >= 1 is 0 once the day has changed.
DayChangeEndsStreak ==
    lastOp = "day_change" =>
        \A hid \in HabitIds : StreakYesterday(hid) >= 1 => current_streak(hid) = 0

\* A streak of k >= 1 is 0 once the day has changed unless the new day holds a
\* row of the habit already, and k + 1 if it does.
DayChangeEndsStreakUnlessMarked ==
    lastOp = "day_change" =>
        \A hid \in HabitIds :
            StreakYesterday(hid) >= 1 =>
                current_streak(hid) =
                    IF DoneOn(hid, today) THEN StreakYesterday(hid) + 1 ELSE 0

\* mark_done(h, today) as the first thing done to h on the new day makes the
\* streak k + 1.
MarkTodayResumesStreak ==
    (/\ lastOp = "mark_done"
     /\ err = "none"
     /\ call[2] = today_str
     /\ call[3]
     /\ StreakYesterday(call[1]) >= 1)
        => current_streak(call[1]) = StreakYesterday(call[1]) + 1

\* unmark_done(h, today) leaves the streak 0.
UnmarkTodayEndsStreak ==
    (lastOp = "unmark_done" /\ call[2] = today_str) => current_streak(call[1]) = 0

\* C26 as stated: a streak of k >= 1 on day D is 0 once today is D + 1 when
\* nothing was marked or unmarked for the habit meanwhile, k + 1 after
\* mark_done for D + 1 and 0 again after unmark_done for D + 1.
C26_Original ==
    /\ DayChangeEndsStreak
    /\ MarkTodayResumesStreak
    /\ UnmarkTodayEndsStreak

\* C26, amended: a streak of k >= 1 on day D is, once today is D + 1 and nothing
\* was marked or unmarked for the habit since the change, 0 when D + 1 holds no
\* row of the habit and k + 1 when a row for D + 1 was stored in advance; after
\* mark_done for D + 1 it is k + 1 and after unmark_done for D + 1 it is 0.
C26_StreakOverMidnight ==
    /\ DayChangeEndsStreakUnlessMarked
    /\ MarkTodayResumesStreak
    /\ UnmarkTodayEndsStreak

\* C26 witness: a habit with a streak of 2 when 2024-03-01 began, and marked for
\* that day as the first thing done to it since: a streak of 3.
C26_Witness ==
    /\ lastOp = "mark_done"
    /\ err = "none"
    /\ call[2] = today_str
    /\ call[3]
    /\ StreakYesterday(call[1]) = 2
    /\ current_streak(call[1]) = 3
    /\ changed

(* ------------------- claims about the refresh of the tabs ------------- *)
\* The handler that ran last has returned.
HandlerDone == ~ret.pending

\* After a toggle in the Habits tab every tab shows what the store gives.
HabitsToggleRefreshesAll ==
    (lastOp = "toggle_done" /\ HandlerDone) => ret.shown = refresh_all

\* C27: after the done toggle of the Habits tab and after the checkbox toggle
\* of the Calendar tab all tabs are refreshed: the rows of the Habits tab and
\* the values of the Stats, Milestones and Reports tabs are those computed from
\* the store as it is now.
C27_TogglesRefreshAllTabs ==
    (lastOp \in {"toggle_done", "calendar_toggle"} /\ HandlerDone)
        => ret.shown = refresh_all

(* ------------------- claims about the daily reminder ------------------ *)
\* A run that is about to show the reminder has found the file without today's
\* date and has written today's date.
ShownOnlyAfterRecording ==
    (ret.app = "show" \/ ret.script = "show") => ret.file = today_str

\* C28: the daily reminder is shown at most once per calendar day, however the
\* steps of the in-app check and of the notify script interleave on the file
\* they share; a run shows it only after it has found the file without today's
\* date and has written today's date.
C28_ReminderOncePerDay == ret.shown <= 1 /\ ShownOnlyAfterRecording

(* ------------------- claims about the Pomodoro timer ------------------ *)
\* sessions_completed counts the work countdowns that reached zero since the
\* tab was built, which are the 'work' rows logged since then.
CountsWorkSinceBuilt ==
    /\ ret.sessions_completed = ret.work_finished
    /\ ret.sessions_completed = WorkRows(ret.pomodoro_sessions) - ret.logged_before

CountdownFinished == lastOp' = "tick" /\ changed'

\* A finished work countdown adds exactly one; nothing else changes the counter
\* of a tab.
CounterSteps ==
    /\ (CountdownFinished /\ call'[1]) =>
           ret'.sessions_completed = ret.sessions_completed + 1
    /\ (lastOp' \in {"tick", "toggle_timer", "reset_timer", "skip_session",
                     "update_work_duration", "update_break_duration"}
        /\ ~(CountdownFinished /\ call'[1])) =>
           ret'.sessions_completed = ret.sessions_completed

\* A finished countdown stops the timer, flips the session type and loads the
\* full duration of the new session.
FinishSteps ==
    CountdownFinished =>
        /\ ~ret'.is_running
        /\ ret'.is_work_session = ~ret.is_work_session
        /\ ret'.time_remaining =
               (IF ret'.is_work_session THEN ret'.work_duration ELSE ret'.break_duration)
                   * SecondsPerMinute

\* C29 as stated: sessions_completed is the number of 'work' rows of
\* pomodoro_sessions (and of the work countdowns that reached zero), and
\* time_remaining is never negative.
C29_Original ==
    /\ ret.sessions_completed = WorkRows(ret.pomodoro_sessions)
    /\ ret.time_remaining >= 0

\* C29: after any sequence of start/pause, reset, skip, duration changes and
\* ticks, sessions_completed is the number of work countdowns that reached zero
\* since the timer tab was built and the number of 'work' sessions logged since
\* then; it grows by exactly one when a work countdown finishes and is left
\* alone by skip, reset, pause, a duration change and a finished break; when a
\* countdown finishes the timer is stopped, the session type flips and
\* time_remaining is the full duration of the new session; time_remaining is
\* never negative.
C29_SessionsCompleted ==
    /\ [](CountsWorkSinceBuilt /\ ret.time_remaining >= 0)
    /\ [][CounterSteps /\ FinishSteps]_vars

\* A work countdown has just finished in a tab that was built over a table
\* already holding a 'work' row.
C29_Witness ==
    /\ lastOp = "tick" /\ changed /\ call[1]
    /\ ret.sessions_completed = 1
    /\ ret.logged_before = 1
    /\ ~ret.is_running /\ ~ret.is_work_session

(* -------------------- claims about the best streak -------------------- *)
BestStreaksAgree ==
    LET best == MaxCurrentStreak(UserHabits)
    IN /\ \A h \in UserHabits : stats_streak(h.id) = current_streak(h.id)
       /\ \A rows \in BestStreakRowOrders : get_best_streak(rows).streak = best
       /\ UserHabits # {} =>
              /\ milestones_refresh.max_streak = best
              /\ all_time_report.max_streak = best

\* C30: in every store state the best-streak length of the Stats tab
\* (get_best_streak, whatever the order of the fetched rows), the max_streak
\* counter of the Milestones tab and the best current streak of the all-time
\* report equal the maximum of current_streak over the habits other than
\* General, 0 when there are none (without such a habit the two tabs show a hint
\* and no streak); the streak loop of ui_stats gives every habit the value of
\* current_streak.
C30_BestStreaksAgree == [](BestStreaksAgree)

\* The best streak is 2 and another habit has only a row for a day after today,
\* which the streak loop of ui_stats fetches and current_streak does not.
C30_Witness ==
    /\ MaxCurrentStreak(UserHabits) = 2
    /\ \E h \in UserHabits :
           /\ current_streak(h.id) = 0
           /\ \E r \in DOMAIN habit_logs :
                  r.habit_id = h.id /\ TextLess(today_str, r.day)

====
